---- MODULE Spec2Model ----
(***************************************************************************)
(* VideoStreamer (src/main/video_streamer.cpp): the capture -> encode ->   *)
(* queue -> transmit pipeline and its track registry.                     *)
(*                                                                         *)
(* Execution contexts: caller threads running addTrack / removeTrack,      *)
(* capture tasks running captureLoop, send tasks running sendLoop.  Every  *)
(* action is one step of one context and contains at most one access to    *)
(* state another context can see (a critical section under tracks_mutex_   *)
(* counts as one access).  Scheduling is preemptive and untimed: a         *)
(* vTaskDelay is a step that guarantees nothing about the other tasks.     *)
(*                                                                         *)
(* Specifications:                                                         *)
(*   Spec          two threads make the calls concurrently                 *)
(*   SpecSeq       one thread makes the calls one after the other          *)
(*   SpecSeqFrames the same, with more camera frames                       *)
(*   SpecSession   one running session, no call made                       *)
(*   SpecPaused    one running session, send task paused, prompt devices   *)
(*   SpecSeqFair   SpecSeq with every thread and task scheduled fairly     *)
(*   SpecRestarted a restarted session with the previous capture task left *)
(*   SpecDispatch  HandlerDispatcher (src/main/httpd_server.cpp) alone     *)
(*   SpecThreshold shouldSkipFrame alone, over a range of queue depths     *)
(*   SpecFanOut    one running session with two sinks that may close       *)
(*   SpecCallsFair one thread makes a few calls, fair scheduling           *)
(*   SpecCallersFair two threads make the calls, fair scheduling           *)
(*   SpecVideo     ESP32Video (src/main/esp32_video.cpp) alone             *)
(*   SpecSessions  the session registry of WebRTCServer alone              *)
(***************************************************************************)
EXTENDS Integers, Sequences, FiniteSets, TLC

\* ---------------------------------------------------------------- bounds
MaxCalls     == 2   \* addTrack/removeTrack calls made by the two concurrent callers
SeqCalls     == 3   \* addTrack/removeTrack calls made by the single caller
MaxFrames    == 1   \* frames the camera delivers while calls are made
SeqFrames    == 2   \* frames the camera delivers across restarted sessions
MaxClock     == 2   \* largest value esp_timer_get_time() reaches
QueueFrames  == 9   \* frames the camera delivers to one undisturbed session
PausedFrames == 10  \* frames the camera delivers while the send task is paused
MaxRequests  == 3   \* executeHandler calls made by each thread
OverflowFrames == 8 \* frames the camera delivers to a restarted session
MaxDepth     == 10  \* largest SEND_QUEUE_DEPTH the overload decision is made for
FanFrames    == 2   \* frames the camera delivers to a session with two sinks
FairCalls    == 2   \* calls made by the thread whose calls must return
FairFrames   == 1   \* frames the camera delivers while those calls are made
VideoCalls   == 4   \* open/start/stop/close calls made on the ESP32Video
VideoFrames  == 2   \* frames the camera delivers to the ESP32Video
MaxClients   == 5   \* client ids the session registry is called with

\* ------------------------------------------------------- program constants
SEND_QUEUE_DEPTH       == 8
ENCODER_OUTPUT_BUFFERS == 3
CAM_BUFFER_COUNT       == 4
HANDLER_QUEUE_DEPTH    == 4   \* xQueueCreate(4, sizeof(HandlerRequest*))
MAX_SESSIONS           == 4   \* WebRTCServer::MAX_SESSIONS
VIDEO_OUTPUT_BUFFERS   == 3   \* ESP32Video::ENCODER_OUTPUT_BUFFERS

Callers == {"c1", "c2"}      \* threads calling addTrack / removeTrack
Clients == {"h1", "h2"}      \* threads calling HandlerDispatcher::executeHandler
Ids     == {"a", "b"}        \* client ids
Slots   == {1, 2}            \* task slots of each kind; xTaskCreate fails beyond
NoTrack == 0                 \* a track is named by the number (>= 1) of calls left
                             \* when it was passed to addTrack: every call passes
                             \* a fresh track (a track opens once)

VARIABLES
    \* VideoStreamer fields
    tracks,              \* tracks_ : id -> sink, NoTrack when absent
    mutex,               \* tracks_mutex_ : 0 free, else the send task holding it
    running,             \* running_
    cap_fd, m2m_fd,      \* -1 closed, 1 open
    send_queue,          \* send_queue_ : "null" or "live"
    items,               \* frames held by the queue send_queue_ points to
    capture_task, send_task,      \* task handles: 0 is nullptr
    video_start_pts, capture_frame_count, frames_in_encoder, frames_skipped,
    \* devices
    cam,                 \* camera: [streaming, held, budget]
    enc,                 \* encoder: [streaming, busy, done]
    \* tasks
    ctask, stask,
    \* caller threads
    caller,
    callsLeft,           \* addTrack/removeTrack calls still to come
    \* esp_timer_get_time()
    now,
    \* history
    removed,             \* tracks whose removeTrack has returned
    ub,                  \* a task used a deleted or null queue
    lastTs,              \* << timestamp of the frame enqueued last since the last
                         \* "Initialize state" of startStreaming >>, << >> if none
    enqueued,            \* number of frames enqueued so far
    lastSent,            \* the sink and the frame of the sendFrame call entered last
    \* HandlerDispatcher (src/main/httpd_server.cpp)
    initialized,         \* initialized_
    request_queue,       \* request_queue_ : the HandlerRequest pointers it holds
    requests,            \* the HandlerRequest on the stack of each thread
    handler_task,        \* the task running handlerTaskLoop
    client,              \* the threads calling executeHandler
    dangling,            \* history: the handler task used a request that is gone
    \* the arguments and the result of one overload decision
    decision,
    \* sinks (rtc::Track)
    closed,              \* the sinks that have been closed: isOpen() is false
    \* ESP32Video (src/main/esp32_video.cpp)
    video,               \* the fields of the ESP32Video
    vdev,                \* its devices: [streams, budget, busy]
    vtask,               \* the tasks running captureLoop
    vcall,               \* the calls still to come, and the call made last
    \* WebRTCServer (src/main/httpd_server.cpp)
    sessions_,           \* sessions_ : the map from client ids to sessions
    peer_connections_,   \* the client ids peer_connections_ has an entry for
    scall                \* the registry call made last

vars == << tracks, mutex, running, cap_fd, m2m_fd, send_queue, items,
           capture_task, send_task, video_start_pts, capture_frame_count,
           frames_in_encoder, frames_skipped, cam, enc, ctask, stask,
           caller, callsLeft, now, removed, ub, lastTs, enqueued, lastSent,
           initialized, request_queue, requests, handler_task, client, dangling,
           decision, closed, video, vdev, vtask, vcall,
           sessions_, peer_connections_, scall >>

ctrlVars == << tracks, running, cap_fd, m2m_fd, send_queue, capture_task, send_task >>
statVars == << video_start_pts, capture_frame_count, frames_in_encoder, frames_skipped >>
devVars  == << cam, enc >>
histVars == << removed, ub, lastTs >>
ordVars  == << enqueued, lastSent >>
dispVars == << initialized, request_queue, requests, handler_task, client, dangling >>
\* what no VideoStreamer method and no streaming task touches
videoVars  == << video, vdev, vtask, vcall >>
serverVars == << sessions_, peer_connections_, scall >>
sideVars   == << videoVars, serverVars >>
offVars  == << dispVars, decision, closed, sideVars >>
\* the VideoStreamer, its devices, tasks and callers
streamVars == << tracks, mutex, running, cap_fd, m2m_fd, send_queue, items,
                 capture_task, send_task, video_start_pts, capture_frame_count,
                 frames_in_encoder, frames_skipped, cam, enc, ctask, stask,
                 caller, callsLeft, now, removed, ub, lastTs, enqueued, lastSent >>

\* ------------------------------------------------------------ small helpers
\* A uint32_t value u is held as the integer congruent to it modulo 2^32 that is
\* nearest to 0 (the model checker's integers are 32 bits wide): 0 - 1, which
\* is 4294967295, is held as -1.  The counters stay within a few units of 0.
Inc32(x)      == x + 1
Dec32(x)      == x - 1
\* u < n as unsigned values, for a small n >= 0
Below32(x, n) == x >= 0 /\ x < n
NoTracks   == [ i \in Ids |-> NoTrack ]
Registered == { i \in Ids : tracks[i] # NoTrack }
LoopsAlive == \E t \in Slots : ctask[t].pc # "none" \/ stask[t].pc # "none"

\* A caller thread: where it is, the arguments of its call, the place its
\* stopStreaming returns to, and whether tracks_ was empty when it called.
\* The other fields: ret is what its last call returned ("true"/"false" for
\* addTrack, "void" for removeTrack, "none" before any call).
IdleCaller == [ pc |-> "idle", id |-> "a", trk |-> NoTrack, cont |-> "ret",
                preEmpty |-> FALSE, ret |-> "none" ]
\* A queued frame: its number and time, and as history its place in the order
\* of enqueueing and the sinks registered when it was enqueued.
NoFrame    == [ n |-> 0, ts |-> 0, seq |-> 0, at |-> {} ]
NothingSent == [ to |-> NoTrack, seq |-> 0 ]
\* A capture task: where it is, its local timestamp_us (then the time of the
\* frame it builds) and the number of that frame; and what the iteration it is
\* in has done so far: work, it dequeued a camera frame or an encoded frame;
\* out, "none" while it has dequeued no encoded frame, then "queued" or
\* "dropped" as xQueueSend returned pdTRUE or not.
NoCTask    == [ pc |-> "none", ts |-> 0, n |-> 0, work |-> FALSE, out |-> "none" ]
\* A send task: where it is, the frame it popped, the (id, sink) entries of
\* tracks_ its for loop has still to visit, and the sink whose sendFrame it is in.
NoSTask    == [ pc |-> "none", frame |-> NoFrame, left |-> {}, to |-> NoTrack ]

EncOff == [ streaming |-> FALSE, busy |-> 0, done |-> 0 ]

\* A thread calling executeHandler: where it is, the number of calls it has
\* made, and what its last call returned.
IdleClient == [ pc |-> "idle", k |-> 0, ret |-> "none" ]
\* The HandlerRequest on a thread's stack: live while the executeHandler call
\* that declared it has not returned; its completion_sem and its result.
NoRequest  == [ live |-> FALSE, sem |-> "none", result |-> "ESP_FAIL" ]
\* A HandlerRequest pointer: the thread whose stack it points into and the
\* number of the call whose request it was taken from.
NoPtr      == [ of |-> "none", k |-> 0 ]
NoHandlerTask == [ pc |-> "none", req |-> NoPtr ]
\* No overload decision made.
NoDecision == [ depth |-> SEND_QUEUE_DEPTH, queue |-> "null", queued |-> 0,
                skip |-> "none" ]

\* HandlerDispatcher as constructed (= default members)
DispConstructed ==
    /\ initialized = FALSE
    /\ request_queue = << >>
    /\ requests = [ h \in Clients |-> NoRequest ]
    /\ handler_task = NoHandlerTask
    /\ client = [ h \in Clients |-> IdleClient ]
    /\ dangling = FALSE

\* ESP32Video::ESP32Video, its devices idle, in a run of the given numbers of
\* calls and of camera frames.  A descriptor is -1 or 1 (open), capture_task_
\* is 0 (nullptr) or the slot of the task, frame_callback_ is 0 (empty) or the
\* number of the call it was passed to.
NoVideoCall == [ left |-> 0, n |-> 0, op |-> "none", ret |-> "void", failed |-> "none" ]
VideoConstructed(calls, frames) ==
    /\ video = [ cap_fd_ |-> -1, m2m_fd_ |-> -1, capture_task_ |-> 0,
                 running_ |-> FALSE, frame_callback_ |-> 0, start_time_us_ |-> 0,
                 frame_count_ |-> 0, frames_in_encoder_ |-> 0 ]
    /\ vdev = [ streams |-> {}, budget |-> frames, busy |-> 0 ]
    /\ vtask = [ t \in Slots |-> "none" ]
    /\ vcall = [ NoVideoCall EXCEPT !.left = calls ]

\* No ESP32Video exists: the program constructs none.
NoVideo ==
    /\ video = "none"
    /\ vdev = "none"
    /\ vtask = "none"
    /\ vcall = "none"

\* WebRTCServer::WebRTCServer: both registries empty.
ClientIds   == 1..MaxClients
SessionObjs == {1, 2}         \* the sessions passed to addSession
NoSessions  == [ i \in {} |-> 0 ]
NoServerCall == [ op |-> "none", rejected |-> FALSE ]
ServerConstructed ==
    /\ sessions_ = NoSessions
    /\ peer_connections_ = {}
    /\ scall = NoServerCall

\* HandlerDispatcher as constructed, and no overload decision asked for.
OffConstructed ==
    /\ DispConstructed
    /\ decision = NoDecision
    /\ closed = {}
    /\ NoVideo
    /\ ServerConstructed

\* VideoStreamer::VideoStreamer, in a run of the given numbers of calls and of
\* camera frames, made when esp_timer_get_time() has reached clock
StreamerConstructed(calls, frames, clock) ==
    /\ tracks = NoTracks
    /\ mutex = 0
    /\ running = FALSE
    /\ cap_fd = -1 /\ m2m_fd = -1
    /\ send_queue = "null" /\ items = << >>
    /\ capture_task = 0 /\ send_task = 0
    /\ video_start_pts = 0 /\ capture_frame_count = 0
    /\ frames_in_encoder = 0 /\ frames_skipped = 0
    /\ cam = [ streaming |-> FALSE, held |-> 0, budget |-> frames ]
    /\ enc = EncOff
    /\ ctask = [ t \in Slots |-> NoCTask ]
    /\ stask = [ t \in Slots |-> NoSTask ]
    /\ caller = [ c \in Callers |-> IdleCaller ]
    /\ callsLeft = calls
    /\ now = clock
    /\ removed = {}
    /\ ub = FALSE
    /\ lastTs = << >>
    /\ enqueued = 0
    /\ lastSent = NothingSent

Constructed(calls, frames, clock) ==
    /\ StreamerConstructed(calls, frames, clock)
    /\ OffConstructed

Init == Constructed(MaxCalls, MaxFrames, 1)

\* The state Constructed(1, frames, 1) is in when its one call, addTrack("a", track),
\* has returned true: startStreaming has opened and started the devices,
\* created the queue and both tasks, and no task has taken a step.
Streaming(frames) ==
    /\ tracks = [ i \in Ids |-> IF i = "a" THEN 1 ELSE NoTrack ]
    /\ mutex = 0
    /\ running = TRUE
    /\ cap_fd = 1 /\ m2m_fd = 1
    /\ send_queue = "live" /\ items = << >>
    /\ capture_task = 1 /\ send_task = 1
    /\ video_start_pts = 0 /\ capture_frame_count = 0
    /\ frames_in_encoder = 0 /\ frames_skipped = 0
    /\ cam = [ streaming |-> TRUE, held |-> 0, budget |-> frames ]
    /\ enc = [ EncOff EXCEPT !.streaming = TRUE ]
    /\ ctask = [ t \in Slots |-> IF t = 1 THEN [ NoCTask EXCEPT !.pc = "top" ] ELSE NoCTask ]
    /\ stask = [ t \in Slots |-> IF t = 1 THEN [ NoSTask EXCEPT !.pc = "recv" ] ELSE NoSTask ]
    /\ caller = [ c \in Callers |-> IF c = "c1" THEN [ IdleCaller EXCEPT !.ret = "true" ]
                                                ELSE IdleCaller ]
    /\ callsLeft = 0
    /\ now = 1
    /\ removed = {}
    /\ ub = FALSE
    /\ lastTs = << >>
    /\ enqueued = 0
    /\ lastSent = NothingSent
    /\ OffConstructed

\* ------------------------------------------------------------------ callers
\* The call of caller c returns.  A removeTrack that erased a sink (held in
\* trk) makes that sink a removed one from here on.
Return(c, r) ==
    /\ caller' = [ caller EXCEPT ![c] = [ IdleCaller EXCEPT !.ret = r ] ]
    /\ removed' = IF caller[c].cont = "ret" /\ caller[c].trk # NoTrack
                  THEN removed \cup { caller[c].trk } ELSE removed

\* Continue at the place stopStreaming was called from.
AfterStop(c) ==
    IF caller[c].cont = "ret"
    THEN Return(c, "void")
    ELSE /\ caller' = [ caller EXCEPT ![c].pc = "a_erase" ]
         /\ UNCHANGED removed

\* cleanup(): unmap the buffers and close both descriptors.
cleanup ==
    /\ cap_fd' = -1
    /\ m2m_fd' = -1
    /\ cam' = [ cam EXCEPT !.streaming = FALSE, !.held = 0 ]
    /\ enc' = EncOff

\* A variant of addTrack_insert that keeps the entry an id already has
\* (tracks_.emplace instead of tracks_[client_id] = track).
addTrack_emplace(c) ==
    /\ caller[c].pc = "idle"
    /\ callsLeft > 0
    /\ mutex = 0
    /\ callsLeft' = callsLeft - 1
    /\ \E i \in Ids :
         /\ tracks' = IF tracks[i] = NoTrack THEN [ tracks EXCEPT ![i] = callsLeft ]
                                            ELSE tracks
         /\ caller' = [ caller EXCEPT ![c] =
                          [ pc |-> "a_check", id |-> i, trk |-> callsLeft,
                            cont |-> "erase", preEmpty |-> (Registered = {}),
                            ret |-> "none" ] ]
    /\ removed' = removed
    /\ UNCHANGED << offVars, ordVars, mutex, running, cap_fd, m2m_fd, send_queue, items,
                    capture_task, send_task, statVars, devVars, ctask, stask, now,
                    ub, lastTs >>

\* The value tracks_mutex_ would hold while caller c owned it across steps (no
\* method keeps it that long: a caller's lock scopes are single steps).
CallerLock(c) == IF c = "c1" THEN -1 ELSE -2

\* A variant of addTrack_insert whose lock_guard is declared in the function's
\* scope: the caller goes on to startStreaming holding tracks_mutex_.
addTrack_insertHolding(c) ==
    /\ caller[c].pc = "idle"
    /\ callsLeft > 0
    /\ mutex = 0
    /\ mutex' = CallerLock(c)
    /\ callsLeft' = callsLeft - 1
    /\ \E i \in Ids :
         /\ tracks' = [ tracks EXCEPT ![i] = callsLeft ]
         /\ caller' = [ caller EXCEPT ![c] =
                          [ pc |-> "a_check", id |-> i, trk |-> callsLeft,
                            cont |-> "erase", preEmpty |-> (Registered = {}),
                            ret |-> "none" ] ]
    /\ removed' = removed
    /\ UNCHANGED << offVars, ordVars, running, cap_fd, m2m_fd, send_queue, items,
                    capture_task, send_task, statVars, devVars, ctask, stask, now,
                    ub, lastTs >>

\* addTrack(id, track), track non-null: { lock; tracks_[client_id] = track; }
addTrack_insert(c) ==
    /\ caller[c].pc = "idle"
    /\ callsLeft > 0
    /\ mutex = 0
    /\ callsLeft' = callsLeft - 1
    /\ \E i \in Ids :
         /\ tracks' = [ tracks EXCEPT ![i] = callsLeft ]
         /\ caller' = [ caller EXCEPT ![c] =
                          [ pc |-> "a_check", id |-> i, trk |-> callsLeft,
                            cont |-> "erase", preEmpty |-> (Registered = {}),
                            ret |-> "none" ] ]
    /\ removed' = removed
    /\ UNCHANGED << offVars, ordVars, mutex, running, cap_fd, m2m_fd, send_queue, items, capture_task,
                    send_task, statVars, devVars, ctask, stask, now, ub, lastTs >>

\* if (!running_) startStreaming(); ... startStreaming: if (running_) return true
addTrack_check(c) ==
    /\ caller[c].pc = "a_check"
    /\ UNCHANGED << offVars, ordVars, ctrlVars, mutex, items, statVars, devVars, ctask, stask, callsLeft,
                    now, ub, lastTs >>
    /\ IF running
       THEN Return(c, "true")
       ELSE /\ caller' = [ caller EXCEPT ![c].pc = "s_init" ]
            /\ UNCHANGED removed

\* initCamera() and initEncoder().  initCamera fails at open (cap_fd_ = -1) or
\* at a later ioctl/mmap (cap_fd_ stays open), and startStreaming returns false
\* without cleanup(); initEncoder fails, cleanup(), return false; or both
\* succeed, each (re)initialising its device.
startStreaming_init(c) ==
    /\ caller[c].pc = "s_init"
    /\ \/ /\ cap_fd' = -1
          /\ caller' = [ caller EXCEPT ![c].pc = "a_erase" ]
          /\ UNCHANGED << m2m_fd, cam, enc >>
       \/ /\ cap_fd' = 1
          /\ cam' = [ cam EXCEPT !.streaming = FALSE, !.held = 0 ]
          /\ caller' = [ caller EXCEPT ![c].pc = "a_erase" ]
          /\ UNCHANGED << m2m_fd, enc >>
       \/ /\ cleanup
          /\ caller' = [ caller EXCEPT ![c].pc = "a_erase" ]
       \/ /\ cap_fd' = 1
          /\ m2m_fd' = 1
          /\ cam' = [ cam EXCEPT !.streaming = FALSE, !.held = 0 ]
          /\ enc' = EncOff
          /\ caller' = [ caller EXCEPT ![c].pc = "s_queue" ]
    /\ UNCHANGED << offVars, ordVars, tracks, mutex, running, send_queue, items, capture_task,
                    send_task, statVars, ctask, stask, callsLeft, now, histVars >>

\* send_queue_ = xQueueCreate(...); on failure cleanup() and return false.
\* A queue send_queue_ already pointed to is overwritten (and leaked).
startStreaming_createQueue(c) ==
    /\ caller[c].pc = "s_queue"
    /\ \/ /\ send_queue' = "live"
          /\ items' = << >>
          /\ caller' = [ caller EXCEPT ![c].pc = "s_go" ]
          /\ UNCHANGED << cap_fd, m2m_fd, cam, enc >>
       \/ /\ send_queue' = "null"
          /\ items' = << >>
          /\ cleanup
          /\ caller' = [ caller EXCEPT ![c].pc = "a_erase" ]
    /\ UNCHANGED << offVars, ordVars, tracks, mutex, running, capture_task, send_task, statVars,
                    ctask, stask, callsLeft, now, histVars >>

\* The three VIDIOC_STREAMON calls (a STREAMON on a descriptor another thread
\* has closed fails); on a failure cleanup() and return false.  Then
\* running_ = true; video_start_pts_ = 0; the three counters = 0.
startStreaming_streamOn(c) ==
    /\ caller[c].pc = "s_go"
    /\ \/ /\ cap_fd = 1 /\ m2m_fd = 1
          /\ cam' = [ cam EXCEPT !.streaming = TRUE ]
          /\ enc' = [ enc EXCEPT !.streaming = TRUE ]
          /\ running' = TRUE
          /\ video_start_pts' = 0
          /\ capture_frame_count' = 0
          /\ frames_in_encoder' = 0
          /\ frames_skipped' = 0
          /\ lastTs' = << >>
          /\ caller' = [ caller EXCEPT ![c].pc = "s_tasks" ]
          /\ UNCHANGED << cap_fd, m2m_fd >>
       \/ /\ cleanup
          /\ caller' = [ caller EXCEPT ![c].pc = "a_erase" ]
          /\ UNCHANGED << running, statVars, lastTs >>
    /\ UNCHANGED << offVars, ordVars, tracks, mutex, send_queue, items, capture_task, send_task,
                    ctask, stask, callsLeft, now, removed, ub >>

\* The lowest free task slot; none when MaxTasks tasks of the kind exist.
FreeSlot(tasks) ==
    { t \in Slots : tasks[t].pc = "none" /\ \A u \in Slots : u < t => tasks[u].pc # "none" }

\* xTaskCreate(sendTaskEntry), xTaskCreate(captureTaskEntry).  If either
\* fails: stopStreaming(), return false.  Otherwise startStreaming and
\* addTrack return true.
startStreaming_createTasks(c) ==
    /\ caller[c].pc = "s_tasks"
    /\ UNCHANGED << offVars, ordVars, tracks, mutex, running, cap_fd, m2m_fd, send_queue, items,
                    statVars, devVars, callsLeft, now, ub, lastTs >>
    /\ \/ /\ caller' = [ caller EXCEPT ![c].pc = "t_check" ]
          /\ UNCHANGED << stask, send_task, ctask, capture_task, removed >>
       \/ \E t \in FreeSlot(stask) :
            /\ stask' = [ stask EXCEPT ![t] = [ NoSTask EXCEPT !.pc = "recv" ] ]
            /\ send_task' = t
            /\ \/ /\ caller' = [ caller EXCEPT ![c].pc = "t_check" ]
                  /\ UNCHANGED << ctask, capture_task, removed >>
               \/ \E u \in FreeSlot(ctask) :
                    /\ ctask' = [ ctask EXCEPT ![u] = [ NoCTask EXCEPT !.pc = "top" ] ]
                    /\ capture_task' = u
                    /\ Return(c, "true")

\* A variant of addTrack_erase that returns false and leaves tracks_ alone.
addTrack_noErase(c) ==
    /\ caller[c].pc = "a_erase"
    /\ UNCHANGED << offVars, ordVars, ctrlVars, mutex, items, statVars, devVars, ctask, stask, callsLeft,
                    now, ub, lastTs >>
    /\ Return(c, "false")

\* { lock; tracks_.erase(client_id); } return false;
addTrack_erase(c) ==
    /\ caller[c].pc = "a_erase"
    /\ mutex = 0
    /\ tracks' = [ tracks EXCEPT ![caller[c].id] = NoTrack ]
    /\ UNCHANGED << offVars, ordVars, mutex, running, cap_fd, m2m_fd, send_queue, items, capture_task,
                    send_task, statVars, devVars, ctask, stask, callsLeft, now,
                    ub, lastTs >>
    /\ Return(c, "false")

\* A variant of removeTrack_erase that sets should_stop whenever tracks_ is
\* empty after the lock scope, whether or not the id was found.
removeTrack_stopIfEmpty(c) ==
    /\ caller[c].pc = "idle"
    /\ callsLeft > 0
    /\ mutex = 0
    /\ callsLeft' = callsLeft - 1
    /\ \E i \in Ids :
         /\ tracks' = [ tracks EXCEPT ![i] = NoTrack ]
         /\ IF Registered \subseteq { i }
            THEN /\ caller' = [ caller EXCEPT ![c] =
                                  [ pc |-> "t_check", id |-> i, trk |-> tracks[i],
                                    cont |-> "ret", preEmpty |-> FALSE,
                                    ret |-> "none" ] ]
                 /\ removed' = removed
            ELSE /\ caller' = [ caller EXCEPT ![c] = [ IdleCaller EXCEPT !.ret = "void" ] ]
                 /\ removed' = IF tracks[i] # NoTrack THEN removed \cup { tracks[i] }
                                                      ELSE removed
    /\ UNCHANGED << offVars, ordVars, mutex, running, cap_fd, m2m_fd, send_queue, items,
                    capture_task, send_task, statVars, devVars, ctask, stask, now,
                    ub, lastTs >>

\* removeTrack(id): { lock; find; erase; should_stop = tracks_.empty(); }
\* and return unless should_stop.
removeTrack_erase(c) ==
    /\ caller[c].pc = "idle"
    /\ callsLeft > 0
    /\ mutex = 0
    /\ callsLeft' = callsLeft - 1
    /\ \E i \in Ids :
         LET found == tracks[i] # NoTrack
             stop  == found /\ Registered = { i }
         IN  /\ tracks' = [ tracks EXCEPT ![i] = NoTrack ]
             /\ IF stop
                THEN /\ caller' = [ caller EXCEPT ![c] =
                                      [ pc |-> "t_check", id |-> i, trk |-> tracks[i],
                                        cont |-> "ret", preEmpty |-> FALSE,
                                        ret |-> "none" ] ]
                     /\ removed' = removed
                ELSE /\ caller' = [ caller EXCEPT ![c] = [ IdleCaller EXCEPT !.ret = "void" ] ]
                     /\ removed' = IF found THEN removed \cup { tracks[i] } ELSE removed
    /\ UNCHANGED << offVars, ordVars, mutex, running, cap_fd, m2m_fd, send_queue, items, capture_task,
                    send_task, statVars, devVars, ctask, stask, now, ub, lastTs >>

\* stopStreaming: if (!running_) return; running_ = false;
stopStreaming_check(c) ==
    /\ caller[c].pc = "t_check"
    /\ UNCHANGED << offVars, ordVars, tracks, mutex, cap_fd, m2m_fd, send_queue, items, capture_task,
                    send_task, statVars, devVars, ctask, stask, callsLeft, now,
                    ub, lastTs >>
    /\ IF running
       THEN /\ running' = FALSE
            /\ caller' = [ caller EXCEPT ![c].pc = "t_teardown" ]
            /\ UNCHANGED removed
       ELSE /\ running' = running
            /\ AfterStop(c)

\* A variant of stopStreaming_teardown that waits until the tasks have ended
\* (a join) instead of a fixed delay.
stopStreaming_teardownJoin(c) ==
    /\ caller[c].pc = "t_teardown"
    /\ ~LoopsAlive
    /\ capture_task' = 0
    /\ send_task' = 0
    /\ send_queue' = "null"
    /\ items' = << >>
    /\ cleanup
    /\ UNCHANGED << stask, ub >>
    /\ caller' = [ caller EXCEPT ![c].pc = "t_clear" ]
    /\ UNCHANGED << offVars, ordVars, tracks, mutex, running, statVars, ctask, callsLeft, now,
                    removed, lastTs >>

\* "Wait for tasks to finish": vTaskDelay(100 ms) per non-null handle, then the
\* handle = nullptr; the tasks are neither joined nor deleted.  Then
\* VIDIOC_STREAMOFF on both devices; drain and vQueueDelete the queue,
\* send_queue_ = nullptr; cleanup().  A send task that is inside xQueueReceive
\* on the deleted queue never returns (use after free).
stopStreaming_teardown(c) ==
    /\ caller[c].pc = "t_teardown"
    /\ capture_task' = 0
    /\ send_task' = 0
    /\ send_queue' = "null"
    /\ items' = << >>
    /\ cleanup
    /\ \E hung \in SUBSET { t \in Slots : stask[t].pc = "recv" /\ send_queue = "live" } :
         /\ stask' = [ t \in Slots |-> IF t \in hung
                                       THEN [ stask[t] EXCEPT !.pc = "hung" ]
                                       ELSE stask[t] ]
         /\ ub' = (ub \/ hung # {})
    /\ caller' = [ caller EXCEPT ![c].pc = "t_clear" ]
    /\ UNCHANGED << offVars, ordVars, tracks, mutex, running, statVars, ctask, callsLeft, now,
                    removed, lastTs >>

\* { lock; tracks_.clear(); } and stopStreaming returns.
stopStreaming_clearTracks(c) ==
    /\ caller[c].pc = "t_clear"
    /\ mutex = 0
    /\ tracks' = NoTracks
    /\ UNCHANGED << offVars, ordVars, mutex, running, cap_fd, m2m_fd, send_queue, items, capture_task,
                    send_task, statVars, devVars, ctask, stask, callsLeft, now,
                    ub, lastTs >>
    /\ AfterStop(c)

CallerStep(c) ==
    \/ addTrack_insert(c)
    \/ addTrack_check(c)
    \/ startStreaming_init(c)
    \/ startStreaming_createQueue(c)
    \/ startStreaming_streamOn(c)
    \/ startStreaming_createTasks(c)
    \/ addTrack_erase(c)
    \/ removeTrack_erase(c)
    \/ stopStreaming_check(c)
    \/ stopStreaming_teardown(c)
    \/ stopStreaming_clearTracks(c)

\* A variant of uxQueueMessagesWaiting that does not count the queue's frames.
uxQueueNoCount == Len(<< >>)

\* A variant of shouldSkipFrame that starts to skip one frame later.
shouldSkipLate ==
    /\ send_queue # "null"
    /\ Len(items) > (SEND_QUEUE_DEPTH * 3) \div 4

\* --------------------------------------------------------------- FreeRTOS queue
\* uxQueueMessagesWaiting(send_queue_)
uxQueueMessagesWaiting == Len(items)

\* xQueueSend(send_queue_, &frame, 0): pdTRUE and the frame is queued when there
\* is room, pdFALSE otherwise.
xQueueSendOk == uxQueueMessagesWaiting < SEND_QUEUE_DEPTH

\* shouldSkipFrame() as a function of what it reads: the constant
\* SEND_QUEUE_DEPTH, the handle send_queue_ and uxQueueMessagesWaiting's count.
\* if (!send_queue_) return false; return queued >= (SEND_QUEUE_DEPTH * 3 / 4);
\* the division is C's integer division of non-negative ints.
shouldSkipFrameAt(depth, queue, queued) ==
    /\ queue # "null"
    /\ queued >= (depth * 3) \div 4

\* shouldSkipFrame()
shouldSkipFrame ==
    shouldSkipFrameAt(SEND_QUEUE_DEPTH, send_queue, uxQueueMessagesWaiting)

\* ------------------------------------------------------------------ devices
\* VIDIOC_DQBUF on the camera can return a frame
CamReady == cap_fd = 1 /\ cam.streaming /\ cam.budget > 0 /\ cam.held < CAM_BUFFER_COUNT
\* VIDIOC_QBUF on the camera: the buffer goes back unless the device is closed
CamReturn(cm) == IF cap_fd = 1 /\ cm.held > 0 THEN [ cm EXCEPT !.held = @ - 1 ] ELSE cm
\* the encoder can take an input frame / has an encoded frame / has a consumed
\* input buffer to give back
EncAccepts == m2m_fd = 1 /\ enc.streaming
EncOutput  == m2m_fd = 1 /\ enc.streaming /\ enc.busy > 0
EncInput   == m2m_fd = 1 /\ enc.done > 0

\* esp_timer_get_time(): monotonic
ClockRead(t) == t \in { now, now + 1 } /\ t <= MaxClock

\* ------------------------------------------------------------- captureLoop
\* while (running_): on false the loop and the task end.  Feed stage: if
\* frames_in_encoder_ < ENCODER_OUTPUT_BUFFERS, VIDIOC_DQBUF on the camera.
captureLoop_top(t) ==
    /\ ctask[t].pc = "top"
    /\ IF ~running
       THEN /\ ctask' = [ ctask EXCEPT ![t] = NoCTask ]
            /\ cam' = cam
       ELSE \/ /\ Below32(frames_in_encoder, ENCODER_OUTPUT_BUFFERS)
               /\ CamReady
               /\ cam' = [ cam EXCEPT !.held = @ + 1, !.budget = @ - 1 ]
               /\ ctask' = [ ctask EXCEPT ![t].pc = "admit", ![t].work = TRUE ]
            \/ /\ ctask' = [ ctask EXCEPT ![t].pc = "drain" ]
               /\ cam' = cam
    /\ UNCHANGED << offVars, ordVars, ctrlVars, mutex, items, statVars, enc, stask, caller,
                    callsLeft, now, histVars >>

\* A variant of captureLoop_admit in which a frame the encoder rejects ends
\* the capture task.
captureLoop_admitOrExit(t) ==
    /\ ctask[t].pc = "admit"
    /\ cam' = CamReturn(cam)
    /\ IF shouldSkipFrame
       THEN /\ frames_skipped' = frames_skipped + 1
            /\ ctask' = [ ctask EXCEPT ![t] = [ NoCTask EXCEPT !.pc = "top" ] ]
            /\ UNCHANGED << enc, frames_in_encoder >>
       ELSE /\ frames_skipped' = frames_skipped
            /\ \/ /\ EncAccepts
                  /\ enc' = [ enc EXCEPT !.busy = @ + 1 ]
                  /\ frames_in_encoder' = Inc32(frames_in_encoder)
                  /\ ctask' = [ ctask EXCEPT ![t].pc = "drain" ]
               \/ /\ ctask' = [ ctask EXCEPT ![t] = NoCTask ]
                  /\ UNCHANGED << enc, frames_in_encoder >>
    /\ UNCHANGED << offVars, ordVars, ctrlVars, mutex, items, video_start_pts, capture_frame_count,
                    stask, caller, callsLeft, now, histVars >>

\* A variant of captureLoop_admit that does not give a skipped frame's buffer
\* back to the camera.
captureLoop_admitKeep(t) ==
    /\ ctask[t].pc = "admit"
    /\ IF shouldSkipFrame
       THEN /\ frames_skipped' = frames_skipped + 1
            /\ ctask' = [ ctask EXCEPT ![t] = [ NoCTask EXCEPT !.pc = "top" ] ]
            /\ UNCHANGED << cam, enc, frames_in_encoder >>
       ELSE /\ ctask' = [ ctask EXCEPT ![t].pc = "drain" ]
            /\ cam' = CamReturn(cam)
            /\ frames_skipped' = frames_skipped
            /\ \/ /\ EncAccepts
                  /\ enc' = [ enc EXCEPT !.busy = @ + 1 ]
                  /\ frames_in_encoder' = Inc32(frames_in_encoder)
               \/ UNCHANGED << enc, frames_in_encoder >>
    /\ UNCHANGED << offVars, ordVars, ctrlVars, mutex, items, video_start_pts, capture_frame_count,
                    stask, caller, callsLeft, now, histVars >>

\* A variant of captureLoop_admit that submits the frame to the encoder first
\* and tests shouldSkipFrame afterwards.
captureLoop_admitEncodeFirst(t) ==
    /\ ctask[t].pc = "admit"
    /\ cam' = CamReturn(cam)
    /\ \/ /\ EncAccepts
          /\ enc' = [ enc EXCEPT !.busy = @ + 1 ]
          /\ frames_in_encoder' = Inc32(frames_in_encoder)
       \/ UNCHANGED << enc, frames_in_encoder >>
    /\ IF shouldSkipFrame
       THEN /\ frames_skipped' = frames_skipped + 1
            /\ ctask' = [ ctask EXCEPT ![t] = [ NoCTask EXCEPT !.pc = "top" ] ]
       ELSE /\ ctask' = [ ctask EXCEPT ![t].pc = "drain" ]
            /\ frames_skipped' = frames_skipped
    /\ UNCHANGED << offVars, ordVars, ctrlVars, mutex, items, video_start_pts, capture_frame_count,
                    stask, caller, callsLeft, now, histVars >>

\* A variant of captureLoop_admit without the continue: after a skipped frame
\* the iteration goes on to the drain stage.
captureLoop_admitThenDrain(t) ==
    /\ ctask[t].pc = "admit"
    /\ cam' = CamReturn(cam)
    /\ ctask' = [ ctask EXCEPT ![t].pc = "drain" ]
    /\ IF shouldSkipFrame
       THEN /\ frames_skipped' = frames_skipped + 1
            /\ UNCHANGED << enc, frames_in_encoder >>
       ELSE /\ frames_skipped' = frames_skipped
            /\ \/ /\ EncAccepts
                  /\ enc' = [ enc EXCEPT !.busy = @ + 1 ]
                  /\ frames_in_encoder' = Inc32(frames_in_encoder)
               \/ UNCHANGED << enc, frames_in_encoder >>
    /\ UNCHANGED << offVars, ordVars, ctrlVars, mutex, items, video_start_pts,
                    capture_frame_count, stask, caller, callsLeft, now, histVars >>

\* if (shouldSkipFrame()) { QBUF camera; frames_skipped_++; continue; }
\* else VIDIOC_QBUF to the encoder, frames_in_encoder_++ if accepted, and the
\* camera buffer is returned.
captureLoop_admit(t) ==
    /\ ctask[t].pc = "admit"
    /\ cam' = CamReturn(cam)
    /\ IF shouldSkipFrame
       THEN /\ frames_skipped' = frames_skipped + 1
            /\ ctask' = [ ctask EXCEPT ![t] = [ NoCTask EXCEPT !.pc = "top" ] ]
            /\ UNCHANGED << enc, frames_in_encoder >>
       ELSE /\ ctask' = [ ctask EXCEPT ![t].pc = "drain" ]
            /\ frames_skipped' = frames_skipped
            /\ \/ /\ EncAccepts
                  /\ enc' = [ enc EXCEPT !.busy = @ + 1 ]
                  /\ frames_in_encoder' = Inc32(frames_in_encoder)
               \/ UNCHANGED << enc, frames_in_encoder >>
    /\ UNCHANGED << offVars, ordVars, ctrlVars, mutex, items, video_start_pts, capture_frame_count,
                    stask, caller, callsLeft, now, histVars >>

\* Drain stage: VIDIOC_DQBUF on the encoder's capture side; on success
\* timestamp_us = esp_timer_get_time().
captureLoop_drain(t) ==
    /\ ctask[t].pc = "drain"
    /\ \/ /\ EncOutput
          /\ enc' = [ enc EXCEPT !.busy = @ - 1, !.done = @ + 1 ]
          /\ \E ts \in { now, now + 1 } :
               /\ ClockRead(ts)
               /\ now' = ts
               /\ ctask' = [ ctask EXCEPT ![t].pc = "stamp", ![t].ts = ts,
                                          ![t].work = TRUE ]
       \/ /\ ctask' = [ ctask EXCEPT ![t].pc = "end" ]
          /\ UNCHANGED << enc, now >>
    /\ UNCHANGED << offVars, ordVars, ctrlVars, mutex, items, statVars, cam, stask, caller,
                    callsLeft, histVars >>

\* timestamp_us - video_start_pts_ as uint64_t, held like a uint32_t above
Pts(ts, start) == ts - start
\* a <= b as unsigned values
ULeq(a, b) == IF (a >= 0) = (b >= 0) THEN a <= b ELSE a >= 0

\* if (video_start_pts_ == 0) video_start_pts_ = timestamp_us; the frame's time
\* is timestamp_us - video_start_pts_; capture_frame_count_++; new QueuedFrame.
captureLoop_stamp(t) ==
    /\ ctask[t].pc = "stamp"
    /\ LET start == IF video_start_pts = 0 THEN ctask[t].ts ELSE video_start_pts
       IN  /\ video_start_pts' = start
           /\ capture_frame_count' = capture_frame_count + 1
           /\ ctask' = [ ctask EXCEPT ![t].pc = "push",
                                      ![t].ts = Pts(ctask[t].ts, start),
                                      ![t].n  = capture_frame_count + 1 ]
    /\ UNCHANGED << offVars, ordVars, ctrlVars, mutex, items, frames_in_encoder, frames_skipped,
                    devVars, stask, caller, callsLeft, now, histVars >>

\* A variant of captureLoop_push that asks shouldSkipFrame again before
\* xQueueSend and deletes the frame when it says so.
captureLoop_pushIfBelow(t) ==
    /\ ctask[t].pc = "push"
    /\ IF send_queue = "null"
       THEN /\ ub' = TRUE
            /\ ctask' = [ ctask EXCEPT ![t].pc = "hung" ]
            /\ UNCHANGED << items, lastTs, enqueued >>
       ELSE LET f  == [ n |-> ctask[t].n, ts |-> ctask[t].ts, seq |-> enqueued + 1,
                        at |-> { tracks[i] : i \in Registered } ]
                ok == xQueueSendOk /\ ~shouldSkipFrame
            IN  /\ items' = IF ok THEN Append(items, f) ELSE items
                /\ lastTs' = IF ok THEN << f.ts >> ELSE lastTs
                /\ enqueued' = IF ok THEN enqueued + 1 ELSE enqueued
                /\ ctask' = [ ctask EXCEPT ![t] =
                                 [ NoCTask EXCEPT !.pc = "return", !.work = TRUE,
                                     !.out = IF ok THEN "queued" ELSE "dropped" ] ]
                /\ ub' = ub
    /\ UNCHANGED << offVars, ctrlVars, mutex, statVars, devVars, stask, caller, callsLeft,
                    now, removed, lastSent >>

\* xQueueSend(send_queue_, &frame, 0), and delete frame if it fails.
\* xQueueSend on a null handle halts the task.
captureLoop_push(t) ==
    /\ ctask[t].pc = "push"
    /\ IF send_queue = "null"
       THEN /\ ub' = TRUE
            /\ ctask' = [ ctask EXCEPT ![t].pc = "hung" ]
            /\ UNCHANGED << items, lastTs, enqueued >>
       ELSE LET f == [ n |-> ctask[t].n, ts |-> ctask[t].ts, seq |-> enqueued + 1,
                       at |-> { tracks[i] : i \in Registered } ]
            IN  /\ items' = IF xQueueSendOk THEN Append(items, f) ELSE items
                /\ lastTs' = IF xQueueSendOk THEN << f.ts >> ELSE lastTs
                /\ enqueued' = IF xQueueSendOk THEN enqueued + 1 ELSE enqueued
                /\ ctask' = [ ctask EXCEPT ![t] =
                                 [ NoCTask EXCEPT !.pc = "return", !.work = TRUE,
                                     !.out = IF xQueueSendOk THEN "queued"
                                                             ELSE "dropped" ] ]
                /\ ub' = ub
    /\ UNCHANGED << offVars, ctrlVars, mutex, statVars, devVars, stask, caller, callsLeft,
                    now, removed, lastSent >>

\* VIDIOC_QBUF of the output buffer, then VIDIOC_DQBUF of the input buffer
captureLoop_return(t) ==
    /\ ctask[t].pc = "return"
    /\ \/ /\ EncInput
          /\ enc' = [ enc EXCEPT !.done = @ - 1 ]
          /\ ctask' = [ ctask EXCEPT ![t].pc = "dec" ]
       \/ /\ ctask' = [ ctask EXCEPT ![t].pc = "end" ]
          /\ enc' = enc
    /\ UNCHANGED << offVars, ordVars, ctrlVars, mutex, items, statVars, cam, stask, caller,
                    callsLeft, now, histVars >>

\* ... == 0) frames_in_encoder_--;
captureLoop_dec(t) ==
    /\ ctask[t].pc = "dec"
    /\ frames_in_encoder' = Dec32(frames_in_encoder)
    /\ ctask' = [ ctask EXCEPT ![t].pc = "end" ]
    /\ UNCHANGED << offVars, ordVars, ctrlVars, mutex, items, video_start_pts, capture_frame_count,
                    frames_skipped, devVars, stask, caller, callsLeft, now, histVars >>

\* A variant of captureLoop_end that delays when the iteration has dequeued
\* neither a camera frame nor an encoded frame.
captureLoop_endIfIdle(t) ==
    /\ ctask[t].pc = "end"
    /\ ctask' = [ ctask EXCEPT ![t] =
                     IF ~ctask[t].work THEN [ ctask[t] EXCEPT !.pc = "sleep" ]
                                       ELSE [ NoCTask EXCEPT !.pc = "top" ] ]
    /\ UNCHANGED << offVars, ordVars, ctrlVars, mutex, items, statVars, devVars, stask,
                    caller, callsLeft, now, histVars >>

\* "Small delay if encoder pipeline is empty":
\* if (frames_in_encoder_ == 0) vTaskDelay(pdMS_TO_TICKS(1)); the task is in the
\* delay, or back at the loop's condition with a new iteration to start.
captureLoop_end(t) ==
    /\ ctask[t].pc = "end"
    /\ ctask' = [ ctask EXCEPT ![t] =
                     IF frames_in_encoder = 0 THEN [ ctask[t] EXCEPT !.pc = "sleep" ]
                                              ELSE [ NoCTask EXCEPT !.pc = "top" ] ]
    /\ UNCHANGED << offVars, ordVars, ctrlVars, mutex, items, statVars, devVars, stask,
                    caller, callsLeft, now, histVars >>

\* vTaskDelay returns.
captureLoop_sleep(t) ==
    /\ ctask[t].pc = "sleep"
    /\ ctask' = [ ctask EXCEPT ![t] = [ NoCTask EXCEPT !.pc = "top" ] ]
    /\ UNCHANGED << offVars, ordVars, ctrlVars, mutex, items, statVars, devVars, stask,
                    caller, callsLeft, now, histVars >>

\* ---------------------------------------------------------------- sendLoop
\* xQueueReceive(send_queue_, &frame, portMAX_DELAY): blocks while the queue is
\* empty; on a null handle the task halts.
sendLoop_receive(t) ==
    /\ stask[t].pc = "recv"
    /\ IF send_queue = "null"
       THEN /\ ub' = TRUE
            /\ stask' = [ stask EXCEPT ![t].pc = "hung" ]
            /\ items' = items
       ELSE /\ items # << >>
            /\ stask' = [ stask EXCEPT ![t].pc = "lock", ![t].frame = Head(items) ]
            /\ items' = Tail(items)
            /\ ub' = ub
    /\ UNCHANGED << offVars, ordVars, ctrlVars, mutex, statVars, devVars, ctask, caller, callsLeft, now,
                    removed, lastTs >>

\* A variant of sendLoop_lock that copies the entries of tracks_ under the lock
\* and releases the lock before the for loop.
sendLoop_copy(t) ==
    /\ stask[t].pc = "lock"
    /\ mutex = 0
    /\ IF Registered = {}
       THEN stask' = [ stask EXCEPT ![t] = [ NoSTask EXCEPT !.pc = "recv" ] ]
       ELSE stask' = [ stask EXCEPT ![t].pc = "iter",
                                    ![t].left = { << i, tracks[i] >> : i \in Registered } ]
    /\ mutex' = 0
    /\ UNCHANGED << offVars, ordVars, ctrlVars, items, statVars, devVars, ctask, caller, callsLeft, now,
                    histVars >>

\* std::lock_guard lock(tracks_mutex_); the for loop starts over tracks_, whose
\* entries cannot change while the lock is held.  With no track the lock is
\* released at once and the frame is deleted.
sendLoop_lock(t) ==
    /\ stask[t].pc = "lock"
    /\ mutex = 0
    /\ IF Registered = {}
       THEN /\ stask' = [ stask EXCEPT ![t] = [ NoSTask EXCEPT !.pc = "recv" ] ]
            /\ mutex' = 0
       ELSE /\ stask' = [ stask EXCEPT ![t].pc = "iter",
                                       ![t].left = { << i, tracks[i] >> : i \in Registered } ]
            /\ mutex' = t
    /\ UNCHANGED << offVars, ordVars, ctrlVars, items, statVars, devVars, ctask, caller, callsLeft, now,
                    histVars >>

\* std::map iterates in key order
FirstEntry(S) == CHOOSE e \in S : \A g \in S : e = g \/ (e[1] = "a" /\ g[1] = "b")

\* The lock scope ends (after the last entry, or by an exception): the lock is
\* released and the frame deleted.
sendLoop_unlock(t) ==
    /\ stask' = [ stask EXCEPT ![t] = [ NoSTask EXCEPT !.pc = "recv" ] ]
    /\ mutex' = 0

\* A variant of sendLoop_visit that calls sendFrame without asking isOpen().
sendLoop_visitAll(t) ==
    /\ stask[t].pc = "iter"
    /\ LET e    == FirstEntry(stask[t].left)
           rest == stask[t].left \ { e }
       IN  \/ /\ stask' = [ stask EXCEPT ![t].pc = "sending", ![t].left = rest,
                                          ![t].to = e[2] ]
              /\ mutex' = mutex
              /\ lastSent' = [ to |-> e[2], seq |-> stask[t].frame.seq ]
           \/ /\ IF rest = {}
                 THEN sendLoop_unlock(t)
                 ELSE /\ stask' = [ stask EXCEPT ![t].left = rest ]
                      /\ mutex' = mutex
              /\ lastSent' = lastSent
    /\ UNCHANGED << offVars, ctrlVars, items, statVars, devVars, ctask, caller, callsLeft, now,
                    histVars, enqueued >>

\* One turn of the for loop: if (track && track->isOpen()) then sendFrame is
\* entered, otherwise the loop goes on to the next entry.  isOpen() is false
\* for a sink that has been closed; for another sink it is true or (the sink
\* has not opened yet) false.
sendLoop_visit(t) ==
    /\ stask[t].pc = "iter"
    /\ LET e    == FirstEntry(stask[t].left)
           rest == stask[t].left \ { e }
       IN  \/ /\ e[2] \notin closed
              /\ stask' = [ stask EXCEPT ![t].pc = "sending", ![t].left = rest,
                                          ![t].to = e[2] ]
              /\ mutex' = mutex
              /\ lastSent' = [ to |-> e[2], seq |-> stask[t].frame.seq ]
           \/ /\ IF rest = {}
                 THEN sendLoop_unlock(t)
                 ELSE /\ stask' = [ stask EXCEPT ![t].left = rest ]
                      /\ mutex' = mutex
              /\ lastSent' = lastSent
    /\ UNCHANGED << offVars, ctrlVars, items, statVars, devVars, ctask, caller, callsLeft, now,
                    histVars, enqueued >>

\* track->sendFrame(...) returns, and the loop goes on, or throws: the
\* exception leaves the for loop and the lock scope for the catch block that
\* follows them.
sendLoop_sendFrame(t) ==
    /\ stask[t].pc = "sending"
    /\ \/ IF stask[t].left = {}
          THEN sendLoop_unlock(t)
          ELSE /\ stask' = [ stask EXCEPT ![t].pc = "iter", ![t].to = NoTrack ]
               /\ mutex' = mutex
       \/ sendLoop_unlock(t)
    /\ UNCHANGED << offVars, ordVars, ctrlVars, items, statVars, devVars, ctask, caller, callsLeft, now,
                    histVars >>

CaptureStep(t) ==
    \/ captureLoop_top(t)
    \/ captureLoop_admit(t)
    \/ captureLoop_drain(t)
    \/ captureLoop_stamp(t)
    \/ captureLoop_push(t)
    \/ captureLoop_return(t)
    \/ captureLoop_dec(t)
    \/ captureLoop_end(t)
    \/ captureLoop_sleep(t)

SendStep(t) ==
    \/ sendLoop_receive(t)
    \/ sendLoop_lock(t)
    \/ sendLoop_visit(t)
    \/ sendLoop_sendFrame(t)

Next ==
    \/ \E c \in Callers : CallerStep(c)
    \/ \E t \in Slots : CaptureStep(t)
    \/ \E t \in Slots : SendStep(t)

Spec == Init /\ [][Next]_vars

\* One thread makes all the calls, one after the other.  The clock has reached
\* MaxClock when the object is made: all timestamps are equal.
InitSeq == Constructed(SeqCalls, MaxFrames, MaxClock)
NextSeq ==
    \/ CallerStep("c1")
    \/ \E t \in Slots : CaptureStep(t)
    \/ \E t \in Slots : SendStep(t)
SpecSeq == InitSeq /\ [][NextSeq]_vars

\* The same under the scheduling FreeRTOS gives tasks of equal priority (time
\* slicing: a task that can run does run) and with a caller that goes on with
\* the call it is in and with the calls it has to make.
SpecSeqFair ==
    /\ SpecSeq
    /\ WF_vars(CallerStep("c1"))
    /\ \A t \in Slots : WF_vars(CaptureStep(t)) /\ WF_vars(SendStep(t))

\* A thread that makes FairCalls calls while FairFrames frames flow, under the
\* same scheduling; nothing is assumed of the capture tasks.
InitCallsFair == Constructed(FairCalls, FairFrames, MaxClock)
SpecCallsFair ==
    /\ InitCallsFair /\ [][NextSeq]_vars
    /\ WF_vars(CallerStep("c1"))
    /\ \A t \in Slots : WF_vars(SendStep(t))

\* Two threads that make MaxCalls calls between them, under the same scheduling.
SpecCallersFair ==
    /\ Constructed(MaxCalls, MaxFrames, MaxClock) /\ [][Next]_vars
    /\ \A c \in Callers : WF_vars(CallerStep(c))
    /\ \A t \in Slots : WF_vars(SendStep(t))

\* The same with more camera frames: frames flow while sessions stop and start.
InitSeqFrames == Constructed(SeqCalls, SeqFrames, 1)
SpecSeqFrames == InitSeqFrames /\ [][NextSeq]_vars

\* One session left to itself: no call is made while the two tasks run.
InitSession == Streaming(QueueFrames)
NextSession ==
    \/ \E t \in Slots : CaptureStep(t)
    \/ \E t \in Slots : SendStep(t)
SpecSession == InitSession /\ [][NextSession]_vars

\* The devices never make the capture task wait or fail: the camera has a
\* frame whenever it is asked for one, the encoder takes every frame it is
\* given, has it encoded when asked, and gives its input buffer back.
PromptDevices(t) ==
    /\ (ctask[t].pc = "top" /\ running /\ Below32(frames_in_encoder, ENCODER_OUTPUT_BUFFERS)
          /\ CamReady) => ctask'[t].pc = "admit"
    /\ (ctask[t].pc = "admit" /\ ~shouldSkipFrame) => enc'.busy = enc.busy + 1
    /\ (ctask[t].pc = "drain" /\ EncOutput) => ctask'[t].pc = "stamp"
    /\ (ctask[t].pc = "return" /\ EncInput) => ctask'[t].pc = "dec"

\* One session whose send task is paused (it takes no step) and whose devices
\* are prompt.
InitPaused == Streaming(PausedFrames)
NextPaused ==
    \E t \in Slots :
       \/ captureLoop_top(t)    /\ PromptDevices(t)
       \/ captureLoop_admit(t)  /\ PromptDevices(t)
       \/ captureLoop_drain(t)  /\ PromptDevices(t)
       \/ captureLoop_stamp(t)  /\ PromptDevices(t)
       \/ captureLoop_push(t)   /\ PromptDevices(t)
       \/ captureLoop_return(t) /\ PromptDevices(t)
       \/ captureLoop_dec(t)    /\ PromptDevices(t)
       \/ captureLoop_end(t)    /\ PromptDevices(t)
       \/ captureLoop_sleep(t)  /\ PromptDevices(t)
SpecPaused == InitPaused /\ [][NextPaused]_vars

\* A state Constructed(SeqCalls, frames + 1, MaxClock) is in after
\* addTrack("a", .), removeTrack("a"), addTrack("a", .): the capture task of the
\* first session had dequeued its first encoded frame and was about to call
\* xQueueSend when stopStreaming ran; stopStreaming did not wait for it, and
\* startStreaming has set running_ again and created the tasks of the second
\* session, none of which has taken a step.
Restarted(frames) ==
    /\ tracks = [ i \in Ids |-> IF i = "a" THEN SeqCalls - 2 ELSE NoTrack ]
    /\ mutex = 0
    /\ running = TRUE
    /\ cap_fd = 1 /\ m2m_fd = 1
    /\ send_queue = "live" /\ items = << >>
    /\ capture_task = 2 /\ send_task = 2
    /\ video_start_pts = 0 /\ capture_frame_count = 0
    /\ frames_in_encoder = 0 /\ frames_skipped = 0
    /\ cam = [ streaming |-> TRUE, held |-> 0, budget |-> frames ]
    /\ enc = [ EncOff EXCEPT !.streaming = TRUE ]
    /\ ctask = [ t \in Slots |->
                   IF t = 1 THEN [ NoCTask EXCEPT !.pc = "push", !.n = 1, !.work = TRUE ]
                            ELSE [ NoCTask EXCEPT !.pc = "top" ] ]
    /\ stask = [ t \in Slots |-> [ NoSTask EXCEPT !.pc = "recv" ] ]
    /\ caller = [ c \in Callers |-> IF c = "c1" THEN [ IdleCaller EXCEPT !.ret = "true" ]
                                                ELSE IdleCaller ]
    /\ callsLeft = SeqCalls - 3
    /\ now = MaxClock
    /\ removed = { SeqCalls }
    /\ ub = FALSE
    /\ lastTs = << >>
    /\ enqueued = 0
    /\ lastSent = NothingSent
    /\ OffConstructed

\* A restarted session whose send tasks are paused: the two capture tasks run.
InitRestarted == Restarted(OverflowFrames)
NextRestarted == \E t \in Slots : CaptureStep(t)
SpecRestarted == InitRestarted /\ [][NextRestarted]_vars

\* ------------------------------------------------------------------ sinks
\* The state Constructed(2, frames, 1) is in when its two calls,
\* addTrack("a", .) and addTrack("b", .), have returned true and no task has
\* taken a step.
Fanning(frames) ==
    /\ tracks = [ i \in Ids |-> IF i = "a" THEN 2 ELSE 1 ]
    /\ mutex = 0
    /\ running = TRUE
    /\ cap_fd = 1 /\ m2m_fd = 1
    /\ send_queue = "live" /\ items = << >>
    /\ capture_task = 1 /\ send_task = 1
    /\ video_start_pts = 0 /\ capture_frame_count = 0
    /\ frames_in_encoder = 0 /\ frames_skipped = 0
    /\ cam = [ streaming |-> TRUE, held |-> 0, budget |-> frames ]
    /\ enc = [ EncOff EXCEPT !.streaming = TRUE ]
    /\ ctask = [ t \in Slots |-> IF t = 1 THEN [ NoCTask EXCEPT !.pc = "top" ] ELSE NoCTask ]
    /\ stask = [ t \in Slots |-> IF t = 1 THEN [ NoSTask EXCEPT !.pc = "recv" ] ELSE NoSTask ]
    /\ caller = [ c \in Callers |-> IF c = "c1" THEN [ IdleCaller EXCEPT !.ret = "true" ]
                                                ELSE IdleCaller ]
    /\ callsLeft = 0
    /\ now = 1
    /\ removed = {}
    /\ ub = FALSE
    /\ lastTs = << >>
    /\ enqueued = 0
    /\ lastSent = NothingSent
    /\ OffConstructed

\* A registered sink is closed (by its peer, or by the connection going down):
\* from here on its isOpen() returns false.
track_close ==
    /\ \E i \in Registered :
         /\ tracks[i] \notin closed
         /\ closed' = closed \cup { tracks[i] }
    /\ UNCHANGED << streamVars, dispVars, decision, sideVars >>

\* One session with two sinks, which close at any time.
InitFanOut == Fanning(FanFrames)
NextFanOut ==
    \/ \E t \in Slots : CaptureStep(t)
    \/ \E t \in Slots : SendStep(t)
    \/ track_close
SpecFanOut == InitFanOut /\ [][NextFanOut]_vars

\* ------------------------------------------------------- HandlerDispatcher
\* initialize(): nothing if initialized_; else xQueueCreate and xTaskCreate,
\* and initialized_ = true if both succeed (the queue is deleted if the task
\* cannot be created).
initialize ==
    /\ IF initialized
       THEN UNCHANGED << initialized, handler_task >>
       ELSE \/ UNCHANGED << initialized, handler_task >>
            \/ /\ initialized' = TRUE
               /\ handler_task' = [ NoHandlerTask EXCEPT !.pc = "recv" ]
    /\ UNCHANGED << streamVars, decision, closed, sideVars, request_queue, requests, client, dangling >>

\* executeHandler returns r: its HandlerRequest goes out of scope.
executeHandler_return(h, r) ==
    /\ client' = [ client EXCEPT ![h].pc = "idle", ![h].ret = r ]
    /\ requests' = [ requests EXCEPT ![h] = NoRequest ]

\* executeHandler(req, handler): ESP_FAIL if not initialized or if
\* xSemaphoreCreateBinary fails; else the HandlerRequest is built on the stack
\* with result = ESP_FAIL.
executeHandler_begin(h) ==
    /\ client[h].pc = "idle"
    /\ client[h].k < MaxRequests
    /\ \/ /\ client' = [ client EXCEPT ![h].k = @ + 1, ![h].ret = "ESP_FAIL" ]
          /\ requests' = requests
       \/ /\ initialized
          /\ client' = [ client EXCEPT ![h].k = @ + 1, ![h].pc = "send", ![h].ret = "none" ]
          /\ requests' = [ requests EXCEPT ![h] =
                             [ live |-> TRUE, sem |-> "empty", result |-> "ESP_FAIL" ] ]
    /\ UNCHANGED << streamVars, decision, closed, sideVars, initialized, request_queue, handler_task,
                    dangling >>

\* xQueueSend(request_queue_, &req_ptr, 5 s): the pointer is queued when there
\* is room; if the queue stays full for 5 s, vSemaphoreDelete and ESP_FAIL.
executeHandler_send(h) ==
    /\ client[h].pc = "send"
    /\ IF Len(request_queue) < HANDLER_QUEUE_DEPTH
       THEN /\ request_queue' = Append(request_queue, [ of |-> h, k |-> client[h].k ])
            /\ client' = [ client EXCEPT ![h].pc = "take" ]
            /\ requests' = requests
       ELSE /\ executeHandler_return(h, "ESP_FAIL")
            /\ request_queue' = request_queue
    /\ UNCHANGED << streamVars, decision, closed, sideVars, initialized, handler_task, dangling >>

\* xSemaphoreTake(completion_sem, 30 s): if the semaphore was given, result =
\* request.result, vSemaphoreDelete, return result; if 30 s pass without it,
\* vSemaphoreDelete and ESP_FAIL.
executeHandler_take(h) ==
    /\ client[h].pc = "take"
    /\ IF requests[h].sem = "given"
       THEN executeHandler_return(h, requests[h].result)
       ELSE executeHandler_return(h, "ESP_FAIL")
    /\ UNCHANGED << streamVars, decision, closed, sideVars, initialized, request_queue, handler_task,
                    dangling >>

\* The HandlerRequest a pointer points to still exists: the call that declared
\* it has not returned.
Valid(ptr) == requests[ptr.of].live /\ client[ptr.of].k = ptr.k

\* handlerTaskLoop: xQueueReceive(request_queue_, &req, portMAX_DELAY)
handlerTaskLoop_receive ==
    /\ handler_task.pc = "recv"
    /\ request_queue # << >>
    /\ handler_task' = [ pc |-> "run", req |-> Head(request_queue) ]
    /\ request_queue' = Tail(request_queue)
    /\ UNCHANGED << streamVars, decision, closed, sideVars, initialized, requests, client, dangling >>

\* req->result = req->handler->handler(req->req): the handler has run (for as
\* long as it takes) and its result is stored through req.  Through a pointer
\* whose request is gone the read of req->handler may crash the task, and
\* the store lands in whatever the thread's stack holds there now: nothing
\* the model follows, or the request of a later call.
handlerTaskLoop_run ==
    /\ handler_task.pc = "run"
    /\ LET h == handler_task.req.of
       IN  IF Valid(handler_task.req)
           THEN /\ \E r \in { "ESP_OK", "ESP_FAIL" } :
                     requests' = [ requests EXCEPT ![h].result = r ]
                /\ handler_task' = [ handler_task EXCEPT !.pc = "give" ]
                /\ dangling' = dangling
           ELSE /\ dangling' = TRUE
                /\ \/ /\ handler_task' = [ handler_task EXCEPT !.pc = "halted" ]
                      /\ requests' = requests
                   \/ /\ handler_task' = [ handler_task EXCEPT !.pc = "give" ]
                      /\ \E r \in { "ESP_OK", "ESP_FAIL" } :
                           requests' = IF requests[h].live
                                       THEN [ requests EXCEPT ![h].result = r ]
                                       ELSE requests
    /\ UNCHANGED << streamVars, decision, closed, sideVars, initialized, request_queue, client >>

\* xSemaphoreGive(req->completion_sem), and the loop goes on.  Through a
\* pointer whose request is gone the handle read is that of a deleted
\* semaphore or of the semaphore of a later call.
handlerTaskLoop_give ==
    /\ handler_task.pc = "give"
    /\ LET h == handler_task.req.of
       IN  /\ requests' = IF requests[h].live
                          THEN [ requests EXCEPT ![h].sem = "given" ]
                          ELSE requests
           /\ dangling' = (dangling \/ ~Valid(handler_task.req))
    /\ handler_task' = [ NoHandlerTask EXCEPT !.pc = "recv" ]
    /\ UNCHANGED << streamVars, decision, closed, sideVars, initialized, request_queue, client >>

\* The dispatcher alone: threads call initialize and executeHandler.
InitDispatch == Constructed(0, 0, 1)
NextDispatch ==
    \/ initialize
    \/ \E h \in Clients : executeHandler_begin(h)
    \/ \E h \in Clients : executeHandler_send(h)
    \/ \E h \in Clients : executeHandler_take(h)
    \/ handlerTaskLoop_receive
    \/ handlerTaskLoop_run
    \/ handlerTaskLoop_give
SpecDispatch == InitDispatch /\ [][NextDispatch]_vars

\* ------------------------------------------------------ the overload decision
\* One call of shouldSkipFrame, made with the arguments held in decision.
shouldSkipFrame_call ==
    /\ decision.skip = "none"
    /\ decision' = [ decision EXCEPT !.skip =
                         IF shouldSkipFrameAt(decision.depth, decision.queue,
                                              decision.queued)
                         THEN "true" ELSE "false" ]
    /\ UNCHANGED << streamVars, dispVars, closed, sideVars >>

\* shouldSkipFrame alone, for every SEND_QUEUE_DEPTH up to MaxDepth: the queue
\* is not allocated, or it holds between none and SEND_QUEUE_DEPTH frames.
InitThreshold ==
    /\ StreamerConstructed(0, 0, 1)
    /\ DispConstructed
    /\ closed = {}
    /\ NoVideo
    /\ ServerConstructed
    /\ \E d \in 1..MaxDepth :
         \/ decision = [ NoDecision EXCEPT !.depth = d ]
         \/ \E q \in 0..d :
               decision = [ NoDecision EXCEPT !.depth = d, !.queue = "live",
                                              !.queued = q ]
NextThreshold == shouldSkipFrame_call
SpecThreshold == InitThreshold /\ [][NextThreshold]_vars

\* ----------------------------------------------------------------- ESP32Video
\* The streams a descriptor that is open carries.
VideoStreamsOf(v) ==
    (IF v.cap_fd_ >= 0 THEN {"cam"} ELSE {})
        \cup (IF v.m2m_fd_ >= 0 THEN {"enc_out", "enc_cap"} ELSE {})

\* ESP32Video::stop on the fields v: nothing when running_ is false; else
\* running_ = false, a 100 ms delay when there is a task handle, and the handle
\* is nullptr.  The task itself ends when it reads running_ next.
ESP32Video_stop_fields(v) ==
    IF ~v.running_ THEN v
    ELSE [ v EXCEPT !.running_ = FALSE, !.capture_task_ = 0 ]

\* ... and on the devices d: VIDIOC_STREAMOFF on every open descriptor.
ESP32Video_stop_streams(v, d) ==
    IF ~v.running_ THEN d
    ELSE [ d EXCEPT !.streams = @ \ VideoStreamsOf(v) ]

\* ESP32Video::close on the fields v: stop(), then every open descriptor is
\* closed and set to -1.
ESP32Video_close_fields(v) ==
    [ ESP32Video_stop_fields(v) EXCEPT !.cap_fd_ = -1, !.m2m_fd_ = -1 ]

\* ... and on the devices d: closing a descriptor ends its streams.
ESP32Video_close_streams(v, d) ==
    [ d EXCEPT !.streams = @ \ VideoStreamsOf(v) ]

\* A call of the given kind returns: it is the call made last.
VideoCalled(op, ret, failed) ==
    vcall' = [ left |-> vcall.left - 1, n |-> vcall.n + 1, op |-> op,
               ret |-> ret, failed |-> failed ]

\* ESP32Video::open: initCamera assigns cap_fd_ (-1 when the device cannot be
\* opened) and returns false at any later step with the descriptor left open;
\* initEncoder assigns m2m_fd_ in the same way, and its failure calls close().
ESP32Video_open ==
    /\ vcall.left > 0
    /\ \E outcome \in {"ok", "no_camera", "camera_setup", "encoder"} :
         /\ \/ /\ outcome = "ok"
               /\ video' = [ video EXCEPT !.cap_fd_ = 1, !.m2m_fd_ = 1 ]
               /\ vdev' = vdev
            \/ /\ outcome = "no_camera"
               /\ video' = [ video EXCEPT !.cap_fd_ = -1 ]
               /\ vdev' = vdev
            \/ /\ outcome = "camera_setup"
               /\ video' = [ video EXCEPT !.cap_fd_ = 1 ]
               /\ vdev' = vdev
            \/ /\ outcome = "encoder"
               /\ \E fd \in {-1, 1} :
                    LET v == [ video EXCEPT !.cap_fd_ = 1, !.m2m_fd_ = fd ]
                    IN  /\ video' = ESP32Video_close_fields(v)
                        /\ vdev' = ESP32Video_close_streams(v,
                                       ESP32Video_stop_streams(v, vdev))
         /\ VideoCalled("open", IF outcome = "ok" THEN "true" ELSE "false", "none")
    /\ UNCHANGED << vtask, serverVars, streamVars, dispVars, decision, closed >>

\* The two early returns of ESP32Video::start(callback): nothing is assigned.
ESP32Video_start_earlyAssign(callback) ==
    /\ video' = [ video EXCEPT !.frame_callback_ = callback ]
    /\ UNCHANGED << vdev, vtask >>

ESP32Video_start_early(callback) ==
    UNCHANGED << video, vdev, vtask >>

\* ESP32Video::start(callback).  After the early returns the callback is
\* stored, running_ is true and the counters are reset; then the three
\* VIDIOC_STREAMON calls, each of which may fail (running_ = false, return
\* false), and xTaskCreate, which fails when no task slot is free and may
\* fail otherwise (stop(), return false).  esp_timer_get_time() is read as the
\* number of the call.
ESP32Video_start ==
    /\ vcall.left > 0
    /\ \E callback \in {0, vcall.n + 1} :
         IF video.running_ \/ video.cap_fd_ < 0 \/ video.m2m_fd_ < 0
         THEN /\ ESP32Video_start_early(callback)
              /\ VideoCalled("start", "false", "none")
         ELSE LET v == [ video EXCEPT !.frame_callback_ = callback,
                                      !.running_ = TRUE,
                                      !.start_time_us_ = vcall.n + 1,
                                      !.frame_count_ = 0,
                                      !.frames_in_encoder_ = 0 ]
                  on(ss) == [ vdev EXCEPT !.streams = @ \cup ss ]
                  free == { t \in Slots : vtask[t] = "none" }
              IN  \E failed \in {"none", "cam", "enc_cap", "enc_out", "task"} :
                    /\ failed = "none" => free # {}
                    /\ \/ /\ failed = "cam"
                          /\ video' = [ v EXCEPT !.running_ = FALSE ]
                          /\ vdev' = vdev
                          /\ vtask' = vtask
                       \/ /\ failed = "enc_cap"
                          /\ video' = [ v EXCEPT !.running_ = FALSE ]
                          /\ vdev' = on({"cam"})
                          /\ vtask' = vtask
                       \/ /\ failed = "enc_out"
                          /\ video' = [ v EXCEPT !.running_ = FALSE ]
                          /\ vdev' = on({"cam", "enc_cap"})
                          /\ vtask' = vtask
                       \/ /\ failed = "task"
                          /\ video' = ESP32Video_stop_fields(v)
                          /\ vdev' = ESP32Video_stop_streams(v,
                                         on({"cam", "enc_cap", "enc_out"}))
                          /\ vtask' = vtask
                       \/ /\ failed = "none"
                          /\ LET t == CHOOSE t \in free : \A u \in free : t <= u
                             IN  /\ video' = [ v EXCEPT !.capture_task_ = t ]
                                 /\ vtask' = [ vtask EXCEPT ![t] = "loop" ]
                          /\ vdev' = on({"cam", "enc_cap", "enc_out"})
                    /\ VideoCalled("start",
                                   IF failed = "none" THEN "true" ELSE "false",
                                   failed)
    /\ UNCHANGED << serverVars, streamVars, dispVars, decision, closed >>

\* ESP32Video::stop.
ESP32Video_stop ==
    /\ vcall.left > 0
    /\ video' = ESP32Video_stop_fields(video)
    /\ vdev' = ESP32Video_stop_streams(video, vdev)
    /\ VideoCalled("stop", "void", "none")
    /\ UNCHANGED << vtask, serverVars, streamVars, dispVars, decision, closed >>

\* ESP32Video::close.
ESP32Video_close ==
    /\ vcall.left > 0
    /\ video' = ESP32Video_close_fields(video)
    /\ vdev' = ESP32Video_close_streams(video, ESP32Video_stop_streams(video, vdev))
    /\ VideoCalled("close", "void", "none")
    /\ UNCHANGED << vtask, serverVars, streamVars, dispVars, decision, closed >>

\* ESP32Video::captureLoop in task t: the test of while (running_), which ends
\* the task, or one pass of the loop body.  VIDIOC_DQBUF on the camera yields
\* a frame only while the camera streams and has one; the frame is queued to
\* the encoder (frames_in_encoder_++) unless its descriptor is closed;
\* VIDIOC_DQBUF on the encoder yields an encoded frame only while it streams
\* and holds one: the callback, when there is one, is called and frame_count_
\* grows, and the input buffer comes back (frames_in_encoder_--).
ESP32Video_captureLoop(t) ==
    /\ vtask[t] = "loop"
    /\ IF ~video.running_
       THEN /\ vtask' = [ vtask EXCEPT ![t] = "none" ]
            /\ UNCHANGED << video, vdev >>
       ELSE /\ \E cam_ok, enc_ok \in BOOLEAN :
                 LET q_ok  == cam_ok /\ video.m2m_fd_ >= 0
                     busy1 == vdev.busy + (IF q_ok THEN 1 ELSE 0)
                     gone  == IF enc_ok THEN 1 ELSE 0
                 IN  /\ cam_ok => /\ video.frames_in_encoder_ < VIDEO_OUTPUT_BUFFERS
                                  /\ video.cap_fd_ >= 0
                                  /\ "cam" \in vdev.streams
                                  /\ vdev.budget > 0
                     /\ enc_ok => /\ video.m2m_fd_ >= 0
                                  /\ "enc_cap" \in vdev.streams
                                  /\ busy1 > 0
                     /\ video' = [ video EXCEPT
                            !.frames_in_encoder_ = @ + (IF q_ok THEN 1 ELSE 0) - gone,
                            !.frame_count_ = @ + (IF enc_ok /\ video.frame_callback_ # 0
                                                  THEN 1 ELSE 0) ]
                     /\ vdev' = [ vdev EXCEPT
                            !.budget = @ - (IF cam_ok THEN 1 ELSE 0),
                            !.busy = busy1 - gone ]
            /\ vtask' = vtask
    /\ UNCHANGED << vcall, serverVars, streamVars, dispVars, decision, closed >>

\* One thread calling the ESP32Video, and its capture tasks.
InitVideo ==
    /\ StreamerConstructed(0, 0, 1)
    /\ DispConstructed
    /\ decision = NoDecision
    /\ closed = {}
    /\ ServerConstructed
    /\ VideoConstructed(VideoCalls, VideoFrames)
NextVideo ==
    \/ ESP32Video_open
    \/ ESP32Video_start
    \/ ESP32Video_stop
    \/ ESP32Video_close
    \/ \E t \in Slots : ESP32Video_captureLoop(t)
SpecVideo == InitVideo /\ [][NextVideo]_vars

\* --------------------------------------------------------------- WebRTCServer
\* sessions_.size()
SessionCount == Cardinality(DOMAIN sessions_)

\* The test addSession makes under sessions_mutex_.
addSession_fullAbove == SessionCount > MAX_SESSIONS

addSession_full == SessionCount >= MAX_SESSIONS

\* WebRTCServer::addSession(client_id, session), under sessions_mutex_: at
\* capacity the call is rejected, whether or not client_id has an entry; else
\* sessions_[client_id] = session, which replaces the entry client_id has.
addSession(client_id, session) ==
    /\ IF addSession_full
       THEN /\ sessions_' = sessions_
            /\ scall' = [ op |-> "addSession", rejected |-> TRUE ]
       ELSE /\ sessions_' = [ i \in DOMAIN sessions_ \cup { client_id } |->
                                 IF i = client_id THEN session ELSE sessions_[i] ]
            /\ scall' = [ op |-> "addSession", rejected |-> FALSE ]
    /\ UNCHANGED << peer_connections_, videoVars, streamVars, dispVars, decision, closed >>

\* WebRTCServer::removeSession(client_id), under sessions_mutex_: the entries
\* client_id has in sessions_ and in peer_connections_ are erased.
removeSession(client_id) ==
    /\ sessions_' = [ i \in DOMAIN sessions_ \ { client_id } |-> sessions_[i] ]
    /\ peer_connections_' = peer_connections_ \ { client_id }
    /\ scall' = [ op |-> "removeSession", rejected |-> FALSE ]
    /\ UNCHANGED << videoVars, streamVars, dispVars, decision, closed >>

\* WebRTCServer::handleOffer stores the PeerConnection of client_id.
handleOffer_store(client_id) ==
    /\ peer_connections_' = peer_connections_ \cup { client_id }
    /\ scall' = [ op |-> "handleOffer", rejected |-> FALSE ]
    /\ UNCHANGED << sessions_, videoVars, streamVars, dispVars, decision, closed >>

\* WebRTCServer::stop clears both registries.
WebRTCServer_stop_clear ==
    /\ sessions_' = NoSessions
    /\ peer_connections_' = {}
    /\ scall' = [ op |-> "stop", rejected |-> FALSE ]
    /\ UNCHANGED << videoVars, streamVars, dispVars, decision, closed >>

\* Any sequence of registry calls, for MaxClients client ids.
InitSessions ==
    /\ StreamerConstructed(0, 0, 1)
    /\ DispConstructed
    /\ decision = NoDecision
    /\ closed = {}
    /\ NoVideo
    /\ ServerConstructed
NextSessions ==
    \/ \E i \in ClientIds, s \in SessionObjs : addSession(i, s)
    \/ \E i \in ClientIds : removeSession(i)
    \/ \E i \in ClientIds : handleOffer_store(i)
    \/ WebRTCServer_stop_clear
SpecSessions == InitSessions /\ [][NextSessions]_vars

\* ================================================================== claims
Quiet    == \A c \in Callers : caller[c].pc = "idle"
Min(a, b) == IF a <= b THEN a ELSE b
Max(a, b) == IF a >= b THEN a ELSE b

\* C1: in every reachable state in which tracks_mutex_ is free, running_ is
\* true if and only if tracks_ is non-empty.
C1_RunningIffRegistered ==
    mutex = 0 => (running <=> Registered # {})

\* C2: sendFrame is never in progress on a sink whose removeTrack has returned.
C2_NoPostRemovalDelivery ==
    \A t \in Slots : stask[t].pc = "sending" => stask[t].to \notin removed

\* C2 witness: a frame is being sent to a sink after the removeTrack of
\* another sink has returned.
C2_Witness ==
    \E t \in Slots : stask[t].pc = "sending" /\ removed # {} /\ stask[t].to # NoTrack

\* C3: when a removeTrack that emptied tracks_ returns from stopStreaming, no
\* capture task and no send task exists any more.
C3_LoopsTerminatedAtReturn ==
    [][ \A c \in Callers :
          ( caller[c].cont = "ret" /\ caller[c].pc \in { "t_check", "t_clear" }
            /\ caller'[c].pc = "idle" ) => ~LoopsAlive' ]_vars

\* C4: whenever no call is in progress and running_ is false (the last
\* removeTrack has returned and no start has succeeded since), the queue
\* holds no frame.
C4_QueueEmptyWhenIdle ==
    (Quiet /\ ~running) => items = << >>

\* C5: the for loop of a send task ends for a frame only when every entry of
\* tracks_ has had its turn: a sendFrame that throws leaves no entry unvisited.
C5_FanOutIsolation ==
    [][ \A t \in Slots :
          ( stask[t].pc = "sending" /\ stask'[t].pc = "recv" ) => stask[t].left = {} ]_vars

\* C6: the queue never holds more than SEND_QUEUE_DEPTH frames.
C6_QueueWithinCapacity ==
    Len(items) <= SEND_QUEUE_DEPTH

\* C6 witness: the queue is full.
C6_Witness ==
    Len(items) = SEND_QUEUE_DEPTH

\* C7: frames_in_encoder_ is always between 0 and ENCODER_OUTPUT_BUFFERS.
C7_PipelineDepthInRange ==
    frames_in_encoder >= 0 /\ frames_in_encoder <= ENCODER_OUTPUT_BUFFERS

\* C8: with the send task paused and prompt devices, whenever the capture task
\* is at the top of its loop after k captured frames, the queue holds
\* min(k, 6) frames and frames_skipped_ is max(0, k - 6).
C8_SkipDeterminism ==
    \A t \in Slots :
       ctask[t].pc = "top" =>
          LET k == PausedFrames - cam.budget
          IN  /\ Len(items) = Min(k, 6)
              /\ frames_skipped = Max(0, k - 6)

\* C8 witness: ten or more frames have been captured, six are queued and the
\* others were skipped.
C8_Witness ==
    /\ ctask[1].pc = "top"
    /\ PausedFrames - cam.budget >= 10
    /\ Len(items) = 6
    /\ frames_skipped = PausedFrames - cam.budget - 6

\* C9: an addTrack called with tracks_ empty whose startStreaming failed
\* returns false, with running_ false and tracks_ empty again.
C9_FailedStartLeavesIdle ==
    [][ \A c \in Callers :
          ( caller[c].pc = "a_erase" /\ caller[c].preEmpty /\ caller'[c].pc = "idle" )
          => ( caller'[c].ret = "false" /\ ~running' /\ Registered' = {} ) ]_vars

\* C9 witness: the first call, an addTrack, has returned false after
\* startStreaming had created the send task (the capture task's creation failed).
C9_Witness ==
    /\ caller["c1"].ret = "false"
    /\ callsLeft = SeqCalls - 1
    /\ stask[1].pc # "none"
    /\ ~running /\ Registered = {}

\* C10: a frame enqueued first since startStreaming initialised the state has
\* time 0, and every later one a time not below that of the frame enqueued
\* before it.
C10_TimestampsOrdered ==
    [][ ( lastTs' # lastTs /\ lastTs' # << >> ) =>
          IF lastTs = << >> THEN lastTs'[1] = 0 ELSE ULeq(lastTs[1], lastTs'[1]) ]_vars

\* C11: two sendFrame calls entered one after the other on the same sink carry
\* frames in the order the frames were enqueued.
C11_SinkReceivesInOrder ==
    [][ ( lastSent' # lastSent /\ lastSent'.to = lastSent.to )
          => lastSent'.seq > lastSent.seq ]_vars

\* C12: a frame is sent only to sinks that were registered when the frame was
\* enqueued: a sink inserted later is not sent a frame that was waiting.
C12_NoFrameFromBeforeAddition ==
    \A t \in Slots : stask[t].pc = "sending" => stask[t].to \in stask[t].frame.at

\* C13: a send task does not hold tracks_mutex_ while a sendFrame call is in
\* progress.
C13_NoLockDuringSend ==
    \A t \in Slots : stask[t].pc = "sending" => mutex # t

\* C14: at most one caller is inside the body of startStreaming (past its
\* if (running_) return) or of stopStreaming (past its if (!running_) return).
InLifecycle(c) ==
    caller[c].pc \in { "s_init", "s_queue", "s_go", "s_tasks", "t_teardown", "t_clear" }
C14_OneLifecycleTransition ==
    Cardinality({ c \in Callers : InLifecycle(c) }) <= 1

\* C15: no task uses the queue after stopStreaming has deleted it.
C15_NoUseAfterRelease ==
    ~ub

\* C16: a capture or send task leaves its loop only while running_ is false;
\* after a failed device call or a sendFrame that throws it is still in its loop.
InLoop(task) == task.pc \notin { "none", "hung" }
C16_LoopsSurviveErrors ==
    [][ \A t \in Slots :
          /\ ( InLoop(ctask[t]) /\ ~InLoop(ctask'[t]) ) => ~running
          /\ ( InLoop(stask[t]) /\ ~InLoop(stask'[t]) ) => ~running ]_vars

\* C16 witness: in the first session the camera delivered a frame, the encoder
\* rejected it, and the capture task is at the top of its loop again.
C16_Witness ==
    /\ running /\ callsLeft = SeqCalls - 1
    /\ ctask[1].pc = "top"
    /\ cam.budget < MaxFrames
    /\ frames_in_encoder = 0 /\ frames_skipped = 0 /\ enqueued = 0
    /\ enc.busy = 0 /\ enc.done = 0

\* C17: the camera buffers held by the program are exactly those of the capture
\* tasks between their VIDIOC_DQBUF and the end of the feed stage: each
\* dequeued buffer is back in the camera before the next capture.
C17_CaptureBufferReturned ==
    cam.held = Cardinality({ t \in Slots : ctask[t].pc = "admit" })

\* C17 witness: a frame was skipped and its buffer is back in the camera.
C17_Witness ==
    ctask[1].pc = "top" /\ frames_skipped > 0 /\ cam.held = 0

\* C18: the step that decides about a captured frame, taken with 6 or more
\* frames queued, leaves the encoder and frames_in_encoder_ alone and adds one
\* to frames_skipped_; taken with fewer, it leaves frames_skipped_ alone.
C18_SkipBeforeEncode ==
    [][ \A t \in Slots :
          ( ctask[t].pc = "admit" /\ ctask'[t].pc # "admit" ) =>
             IF Len(items) >= (SEND_QUEUE_DEPTH * 3) \div 4
             THEN /\ enc' = enc
                  /\ frames_in_encoder' = frames_in_encoder
                  /\ frames_skipped' = frames_skipped + 1
             ELSE frames_skipped' = frames_skipped ]_vars

\* C18 witness: two frames have been skipped while the encoder held a frame.
C18_Witness ==
    frames_skipped >= 2 /\ frames_in_encoder > 0

\* C19: addTrack makes its id map to the track it was given and changes no
\* other entry, the id still maps to that track when addTrack returns true,
\* and sendFrame is only ever in progress on a sink tracks_ holds.
C19_InsertReplaces ==
    \A c \in Callers :
       /\ ( caller[c].pc = "idle" /\ caller'[c].pc = "a_check" ) =>
             /\ tracks'[caller'[c].id] = caller'[c].trk
             /\ \A j \in Ids \ { caller'[c].id } : tracks'[j] = tracks[j]
       /\ ( caller[c].pc # "idle" /\ caller'[c].pc = "idle" /\ caller'[c].ret = "true" ) =>
             tracks'[caller[c].id] = caller[c].trk
C19_ReAddReplaces ==
    /\ [][ C19_InsertReplaces ]_vars
    /\ [] ( \A t \in Slots : stask[t].pc = "sending" =>
                \E i \in Ids : tracks[i] = stask[t].to )

\* C19 witness: after two addTrack calls for the same id and no removeTrack, a
\* frame enqueued while the first sink was registered is being sent to the
\* second, the only entry of tracks_.
C19_Witness ==
    /\ callsLeft = SeqCalls - 2 /\ removed = {} /\ running
    /\ Cardinality(Registered) = 1
    /\ \E t \in Slots :
          /\ stask[t].pc = "sending"
          /\ stask[t].frame.at = { SeqCalls }
          /\ stask[t].to = SeqCalls - 1

\* C20: a removeTrack call goes on to stopStreaming exactly when it erased the
\* only entry of tracks_; otherwise it erases at most its own entry and leaves
\* running_, the devices, the queue and the tasks as they were.
C20_RemoveStopsOnlyOnLast ==
    [][ ( /\ callsLeft' < callsLeft
          /\ \A c \in Callers : caller[c].pc = "idle" => caller'[c].pc # "a_check" ) =>
          IF \E c \in Callers : caller[c].pc = "idle" /\ caller'[c].pc = "t_check"
          THEN Cardinality(Registered) = 1 /\ Registered' = {}
          ELSE /\ \/ tracks' = tracks
                  \/ /\ Registered' # {}
                     /\ Cardinality(Registered \ Registered') = 1
                     /\ \A j \in Registered' : tracks'[j] = tracks[j]
               /\ UNCHANGED << running, cap_fd, m2m_fd, send_queue, items,
                               capture_task, send_task, devVars, ctask, stask >> ]_vars

\* C20 witness: a removeTrack has returned without stopping the pipeline, which
\* runs on with another sink registered.
C20_Witness ==
    /\ caller["c1"].pc = "idle" /\ caller["c1"].ret = "void"
    /\ removed # {} /\ running /\ Registered # {}

\* C21: an executeHandler call returns only when its request is neither queued
\* nor held by the handler task: every HandlerRequest pointer in the queue or
\* in the handler task's hands points to a request that still exists, and the
\* handler task never stores a result or gives a semaphore through one that
\* does not.
C21_ExecuteHandlerBlocks ==
    /\ ~dangling
    /\ \A i \in 1 .. Len(request_queue) : Valid(request_queue[i])
    /\ handler_task.pc \in { "run", "give" } => Valid(handler_task.req)

\* C22: the frames queued and frames_in_encoder_ never add up to more than
\* SEND_QUEUE_DEPTH, and no capture task ever calls xQueueSend on a full queue.
C22_PushAlwaysSucceeds ==
    /\ Len(items) + frames_in_encoder <= SEND_QUEUE_DEPTH
    /\ \A t \in Slots : ( ctask[t].pc = "push" /\ send_queue = "live" ) => xQueueSendOk

\* C23: a capture task that holds an encoded frame enqueues it whenever the
\* queue has room, whatever the queue holds compared with the skip threshold;
\* and the queue never holds more than SEND_QUEUE_DEPTH frames.
C23_NoSkipAtEnqueue ==
    /\ [][ \A t \in Slots :
             ( /\ ctask[t].pc = "push" /\ ctask'[t].pc # "push"
               /\ send_queue = "live" /\ Len(items) < SEND_QUEUE_DEPTH )
             => ( Len(items') = Len(items) + 1 /\ ctask'[t].out = "queued" ) ]_vars
    /\ [] ( Len(items) <= SEND_QUEUE_DEPTH )

\* C23 witness: no frame was skipped, and a frame has just been enqueued as
\* the seventh of the queue, above the threshold of six.
C23_Witness ==
    /\ frames_skipped = 0
    /\ Len(items) = SEND_QUEUE_DEPTH - 1
    /\ \E t \in Slots : ctask[t].pc = "return" /\ ctask[t].out = "queued"

\* C24: whenever the capture task of a session is at the top of its loop,
\* frames_in_encoder_ is the number of frames the encoder accepted and has not
\* yet given back encoded: every retrieved frame was counted down, whether or
\* not the encoder's buffers could be returned.
C24_DepthCountsEncoderFrames ==
    \A t \in Slots : ctask[t].pc = "top" => frames_in_encoder = enc.busy

\* C25, as claimed: whatever a capture task decides about the frame it
\* captured, skipped or not, it goes on to the drain stage of that iteration.
C25_DrainEveryIteration ==
    [][ \A t \in Slots :
          ( ctask[t].pc = "admit" /\ ctask'[t].pc # "admit" ) => ctask'[t].pc = "drain" ]_vars

\* C25, amended: an iteration goes on to the drain stage unless it skipped the
\* frame it captured; after a skip (six or more frames queued) it goes back to
\* the loop's condition without the drain stage.
C25_DrainUnlessSkipped ==
    [][ \A t \in Slots :
          /\ ( ctask[t].pc = "admit" /\ ctask'[t].pc # "admit" ) =>
                ctask'[t].pc = IF send_queue # "null"
                                  /\ Len(items) >= (SEND_QUEUE_DEPTH * 3) \div 4
                               THEN "top" ELSE "drain"
          /\ ( ctask[t].pc = "top" /\ ctask'[t].pc \notin { "top", "admit", "none" } ) =>
                ctask'[t].pc = "drain" ]_vars

\* C25 witness: a frame was skipped while the encoder had a frame to give, and
\* the capture task is back at the loop's condition with that frame still in
\* the encoder.
C25_Witness ==
    ctask[1].pc = "top" /\ frames_skipped > 0 /\ enc.busy > 0

\* C26, as claimed: an iteration of a capture task that reaches its end goes
\* into the delay exactly when it has dequeued neither a camera frame nor an
\* encoded frame.
C26_SleepIffNoWork ==
    [][ \A t \in Slots :
          ( ctask[t].pc = "end" /\ ctask'[t].pc # "end" ) =>
             ( ctask'[t].pc = "sleep" <=> ~ctask[t].work ) ]_vars

\* C26, amended: an iteration that reaches its end goes into the delay exactly
\* when frames_in_encoder_ is 0 there, whatever the iteration has dequeued;
\* the delay is entered from the end of an iteration only, so an iteration
\* that skipped its frame starts the next one without it.
C26_SleepIffPipelineEmpty ==
    [][ \A t \in Slots :
          /\ ( ctask[t].pc = "end" /\ ctask'[t].pc # "end" ) =>
                ( ctask'[t].pc = "sleep" <=> frames_in_encoder = 0 )
          /\ ( ctask[t].pc # "sleep" /\ ctask'[t].pc = "sleep" ) => ctask[t].pc = "end" ]_vars

\* C26 witness: a capture task is in the delay at the end of an iteration in
\* which it dequeued an encoded frame and enqueued it.
C26_Witness ==
    \E t \in Slots : ctask[t].pc = "sleep" /\ ctask[t].out = "queued"

\* C27: whenever a removeTrack that erased the last sink has cleared running_,
\* either a later start sets running_ again or a state follows in which no
\* capture task and no send task exists any more: every loop has left by its
\* exit.
C27_LoopsExitAfterStop ==
    \A c \in Callers :
       ( caller[c].pc = "t_teardown" /\ caller[c].cont = "ret" )
          ~> ( running \/ ~LoopsAlive )

\* C28: no caller owns tracks_mutex_ while it is in initCamera / initEncoder,
\* in the VIDIOC_STREAMON calls or in stopStreaming's wait, VIDIOC_STREAMOFF
\* and cleanup; and a task that owns it is a send task inside its for loop
\* over tracks_, where no camera or encoder call is made.
C28_NoLockAcrossDeviceCalls ==
    /\ \A c \in Callers :
          caller[c].pc \in { "s_init", "s_go", "t_teardown" } => mutex # CallerLock(c)
    /\ mutex \in Slots => stask[mutex].pc \in { "iter", "sending" }

\* C28 witness: a caller is acquiring or releasing the devices while a send
\* task owns tracks_mutex_.
C28_Witness ==
    /\ mutex \in Slots
    /\ \E c \in Callers : caller[c].pc \in { "s_init", "s_go", "t_teardown" }

\* C29: when xQueueSend fails the frame is not queued and frames_skipped_ is
\* left alone; the iteration then returns the encoder's buffers, takes
\* frames_in_encoder_ down by one and goes on to the end of the loop body.
C29_FailedPushDropsFrame ==
    [][\A t \in Slots :
          /\ (ctask[t].pc = "push" /\ ctask'[t].out = "dropped")
                => /\ items' = items
                   /\ frames_skipped' = frames_skipped
                   /\ ctask'[t].pc = "return"
          /\ (ctask[t].out = "dropped" /\ ctask[t].pc = "return"
                 /\ ctask'[t].pc # "return")
                => ctask'[t].pc = "dec"
          /\ (ctask[t].out = "dropped" /\ ctask[t].pc = "dec" /\ ctask'[t].pc # "dec")
                => /\ frames_in_encoder' = Dec32(frames_in_encoder)
                   /\ ctask'[t].pc = "end"]_vars

C30_SkipAtSixOfEight ==
    (decision.skip # "none" /\ decision.depth = SEND_QUEUE_DEPTH)
      => (decision.skip = "true"
            <=> (decision.queue # "null" /\ decision.queued >= 6))

\* C31: sendFrame is entered for a sink only in a turn of the for loop in which
\* the sink's isOpen() was asked and was not false (the sink had not been
\* closed); and the turn of a closed sink leaves the frame and the entries
\* still to visit as they are, so that the sinks after it get their turn.
C31_SendOnlyIfOpen ==
    [][\A t \in Slots :
          /\ (stask[t].pc = "iter" /\ stask'[t].pc = "sending")
                => /\ stask'[t].to = FirstEntry(stask[t].left)[2]
                   /\ stask'[t].to \notin closed
          /\ (stask[t].pc = "iter" /\ stask'[t] # stask[t]
                 /\ FirstEntry(stask[t].left)[2] \in closed
                 /\ stask[t].left # { FirstEntry(stask[t].left) })
                => /\ stask'[t].pc = "iter"
                   /\ stask'[t].frame = stask[t].frame
                   /\ stask'[t].left = stask[t].left \ { FirstEntry(stask[t].left) }
                   /\ mutex' = mutex]_vars

\* C31 witness: sink "a" is closed and the frame is being sent to sink "b",
\* which comes after it in tracks_.
C31_Witness ==
    /\ tracks["a"] \in closed
    /\ \E t \in Slots : /\ stask[t].pc = "sending"
                         /\ stask[t].to = tracks["b"]
                         /\ lastSent = [ to |-> tracks["b"], seq |-> stask[t].frame.seq ]
                         /\ stask[t].frame.seq = 2

\* C32: the QueuedFrame objects that exist: those the queue holds, the one a
\* capture task has made (new QueuedFrame) and not yet passed to xQueueSend,
\* and the one a send task has received and not yet deleted.  Whenever no call
\* is in progress and running_ is false (the last removeTrack has returned),
\* none exists.
FramesAllocated ==
    Len(items) + Cardinality({ t \in Slots : ctask[t].pc = "push" })
               + Cardinality({ t \in Slots : stask[t].pc \in { "lock", "iter", "sending" } })
C32_NoFrameLeftWhenIdle ==
    (Quiet /\ ~running) => FramesAllocated = 0

\* C33: at most one task runs captureLoop and at most one runs sendLoop.
C33_OneTaskOfEachKind ==
    /\ Cardinality({ t \in Slots : ctask[t].pc # "none" }) <= 1
    /\ Cardinality({ t \in Slots : stask[t].pc # "none" }) <= 1

\* C34: the entry of a sink whose addTrack has returned (true: a false return
\* comes after the erase) leaves tracks_ only in the step that begins a
\* removeTrack or an addTrack of its own id.
AddInProgress(k) ==
    \E c \in Callers : caller[c].pc # "idle" /\ caller[c].cont = "erase" /\ caller[c].trk = k
C34_AcceptedSinkStays ==
    [][\A i \in Ids :
          (tracks[i] # NoTrack /\ tracks'[i] # tracks[i] /\ ~AddInProgress(tracks[i]))
            => callsLeft' < callsLeft]_vars

\* C35: whenever no call is in progress and running_ is false, both device
\* descriptors are closed, no queue is allocated and no loop task exists.
C35_IdleHoldsNothing ==
    (Quiet /\ ~running)
      => /\ cap_fd = -1 /\ m2m_fd = -1
         /\ send_queue = "null"
         /\ ~LoopsAlive

\* The parts of C35 taken one at a time.
C35_IdleDescriptorsClosed == (Quiet /\ ~running) => (cap_fd = -1 /\ m2m_fd = -1)
C35_IdleNoQueue == (Quiet /\ ~running) => send_queue = "null"

VideoCallStep(op) == vcall'.n = vcall.n + 1 /\ vcall'.op = op

\* C37: ESP32Video::start made while the capture runs, or while a device is
\* not open, returns false and changes no field, no device and no task (no
\* second capture task; running_, the callback and the counters as they were);
\* a start in which a stream-on or the task creation fails returns false and
\* leaves running_ false; ESP32Video::stop made while running_ is false
\* changes nothing.
C37_StartStopErrorHandling ==
    [][/\ (/\ VideoCallStep("start")
           /\ (video.running_ \/ video.cap_fd_ < 0 \/ video.m2m_fd_ < 0))
          => /\ vcall'.ret = "false"
             /\ video' = video /\ vdev' = vdev /\ vtask' = vtask
       /\ (VideoCallStep("start") /\ vcall'.failed # "none")
          => /\ vcall'.ret = "false"
             /\ ~video'.running_
       /\ (VideoCallStep("stop") /\ ~video.running_)
          => (video' = video /\ vdev' = vdev /\ vtask' = vtask)]_vars

\* C37 witness: start has just returned false on an ESP32Video whose capture
\* runs: one task, the callback of the earlier start, a frame counted.
C37_Witness ==
    /\ vcall.op = "start" /\ vcall.ret = "false" /\ vcall.failed = "none"
    /\ video.running_
    /\ video.frame_callback_ # 0 /\ video.frame_callback_ < vcall.n
    /\ video.frame_count_ > 0
    /\ Cardinality({ t \in Slots : vtask[t] = "loop" }) = 1

\* C38: sessions_ never holds more than MAX_SESSIONS entries, whatever the
\* sequence of addSession and removeSession calls; and an addSession made at
\* capacity is rejected and leaves both registries as they were.
C38_SessionsBounded ==
    /\ [](SessionCount <= MAX_SESSIONS)
    /\ [][/\ (scall'.op = "addSession" /\ SessionCount >= MAX_SESSIONS)
             => scall'.rejected
          /\ (scall'.op = "addSession" /\ scall'.rejected)
             => (sessions_' = sessions_ /\ peer_connections_' = peer_connections_)]_vars

\* C38 witness: an addSession has just been rejected, the registry holding
\* MAX_SESSIONS entries and none for the last client id.
C38_Witness ==
    /\ scall.op = "addSession" /\ scall.rejected
    /\ SessionCount = MAX_SESSIONS
    /\ MaxClients \notin DOMAIN sessions_

====
